---- MODULE Spec2Model ----
(***************************************************************************)
(* A model of POOPy's D8 flow accumulator (poopy/d8_accumulator.py) and of  *)
(* its monitoring network: events, monitors and the water company          *)
(* (poopy/poopy.py, poopy/companies.py).                                   *)
(*                                                                         *)
(* An array is a record [shape, data]: shape is the numpy shape (<<r, c>>  *)
(* for a 2-D array, <<n>> for a flattened one) and data the row-major      *)
(* contents.  Node ids are 0-based as in the program; TLA+ sequences are   *)
(* 1-based, so node n lives at position n + 1.                             *)
(*                                                                         *)
(* The compiled helper module cfuncs (poopy/cfuncs.pyx, named by setup.py) *)
(* is modelled from the written specification of the engine.               *)
(***************************************************************************)
EXTENDS Integers, Sequences, FiniteSets, TLC

VARIABLES
    arr,              \* D8Accumulator._arr
    ds,               \* D8Accumulator._ds: TRUE when a GDAL dataset is held
    receivers,        \* D8Accumulator._receivers
    baselevel_nodes,  \* D8Accumulator._baselevel_nodes
    order,            \* D8Accumulator._order
    result,           \* outcome of the call in progress, NoCall between calls
    events,           \* the Event objects that exist, in order of creation
    monitors,         \* WaterCompany._active_monitors, by site name
    timestamp,        \* WaterCompany._timestamp
    now,              \* datetime.datetime.now()
    alerts            \* the alerts table file of the company

vars ==
    <<arr, ds, receivers, baselevel_nodes, order, result,
      events, monitors, timestamp, now, alerts>>

\* The fields of the accumulator and the state of the monitoring network.
accumulator == <<arr, ds, receivers, baselevel_nodes, order>>

network == <<events, monitors, timestamp, now, alerts>>

(***************************************************************************)
(* Bounds of the model.                                                    *)
(***************************************************************************)
MaxRows == 2
MaxCols == 2
MaxWeight == 1
PointPad == 2
MaxTime == 3
MaxEvents == 1
NumSites == 1
MaxHistory == 3
MaxCalls == 2
MaxAlerts == 5
MaxSources == 2

(***************************************************************************)
(* Arrays.                                                                 *)
(***************************************************************************)
D8Codes == {0, 1, 2, 4, 8, 16, 32, 64, 128}

\* Sink and the four cardinal directions.
CardinalCodes == {0, 1, 4, 16, 64}

\* The 3x3 grids whose cells all flow towards the outlet in the middle of
\* the bottom row (node 7): the cells of the upper rows flow down or towards
\* the middle column, those of the middle column flow down, the corners of
\* the bottom row flow to the outlet.
OutletGrids ==
    { [shape |-> <<3, 3>>, data |-> <<a, b, c, d, e, f, 1, 0, 16>>] :
        a \in {1, 2, 4}, b \in {2, 4, 8}, c \in {4, 8, 16},
        d \in {1, 2, 4}, e \in {2, 4, 8}, f \in {4, 8, 16} }

\* The direction codes the life-cycle specification draws its grids from:
\* sink, east and west.
RowCodes == {0, 1, 16}

\* Codes of the grids on which the downstream impact is computed: east, west
\* and north (a cell that points out of the grid is a sink).
ImpactCodes == {1, 16, 64}

\* The number of elements of an array of the given shape.
RECURSIVE Size(_)
Size(shape) == IF shape = <<>> THEN 1 ELSE Head(shape) * Size(Tail(shape))

Arrays(shape, values) ==
    { [shape |-> shape, data |-> d] : d \in [1..Size(shape) -> values] }

Shapes2D == { <<r, c>> : r \in 1..MaxRows, c \in 1..MaxCols }

Shapes1D == { <<n>> : n \in 1..(MaxRows * MaxCols) }

Grids(codes) == UNION { Arrays(s, codes) : s \in Shapes2D }

NRows(a) == a.shape[1]

NCols(a) == a.shape[2]

NNodes(a) == Len(a.data)

\* numpy.ndarray.flatten
Flatten(a) == [shape |-> <<Len(a.data)>>, data |-> a.data]

\* numpy.ndarray.reshape
Reshape(a, shape) == [shape |-> shape, data |-> a.data]

\* numpy.arange(n) as a sequence
ARange(n) == [i \in 1..n |-> i - 1]

RECURSIVE SumSeq(_)
SumSeq(s) == IF s = <<>> THEN 0 ELSE Head(s) + SumSeq(Tail(s))

(***************************************************************************)
(* Receiver resolver (cfuncs.d8_to_receivers).                             *)
(***************************************************************************)
DRow(code) ==
    CASE code \in {2, 4, 8} -> 1
      [] code \in {32, 64, 128} -> -1
      [] OTHER -> 0

DCol(code) ==
    CASE code \in {1, 2, 128} -> 1
      [] code \in {8, 16, 32} -> -1
      [] OTHER -> 0

ReceiverOf(a, n) ==
    LET r == n \div NCols(a)
        c == n % NCols(a)
        code == a.data[n + 1]
        rr == r + DRow(code)
        cc == c + DCol(code)
    IN  IF code = 0 \/ rr < 0 \/ rr >= NRows(a) \/ cc < 0 \/ cc >= NCols(a)
        THEN n
        ELSE rr * NCols(a) + cc

d8_to_receivers(a) == [i \in 1..NNodes(a) |-> ReceiverOf(a, i - 1)]

\* Mutant: the receivers are compared with 1-based indices.
BaselevelOfOneBased(recv) ==
    SelectSeq(ARange(Len(recv)), LAMBDA n : recv[n + 1] = n + 1)

\* Mutant: only the first self-receiver is kept.
BaselevelOfFirstOnly(recv) ==
    SubSeq(SelectSeq(ARange(Len(recv)), LAMBDA n : recv[n + 1] = n), 1, 1)

\* np.where(receivers == np.arange(len(receivers)))[0]
BaselevelOf(recv) ==
    SelectSeq(ARange(Len(recv)), LAMBDA n : recv[n + 1] = n)

(***************************************************************************)
(* Donor index (cfuncs.count_donors, ndonors_to_delta, make_donor_array).  *)
(***************************************************************************)
count_donors(recv) ==
    [i \in 1..Len(recv) |->
        Cardinality({ d \in 0..(Len(recv) - 1) : recv[d + 1] = i - 1 /\ d # i - 1 })]

\* Exclusive prefix sum, one entry more than there are nodes.
ndonors_to_delta(n_donors) ==
    [i \in 1..(Len(n_donors) + 1) |-> SumSeq(SubSeq(n_donors, 1, i - 1))]

\* The donors of node n in ascending order: the counting sort places the
\* donors of each node in the order in which the pass over the nodes meets them.
DonorsAscending(recv, n) ==
    SelectSeq(ARange(Len(recv)), LAMBDA d : recv[d + 1] = n /\ d # n)

RECURSIVE ConcatDonors(_, _)
ConcatDonors(recv, n) ==
    IF n >= Len(recv) THEN <<>>
    ELSE DonorsAscending(recv, n) \o ConcatDonors(recv, n + 1)

make_donor_array(recv, delta) == ConcatDonors(recv, 0)

DonorSlice(delta, donors, n) == SubSeq(donors, delta[n + 1] + 1, delta[n + 2])

(***************************************************************************)
(* Topological orderer (cfuncs.build_ordered_list_iterative).              *)
(***************************************************************************)
RECURSIVE DrainQueue(_, _, _, _)
DrainQueue(queue, ordered, delta, donors) ==
    IF queue = <<>> THEN ordered
    ELSE DrainQueue(Tail(queue) \o DonorSlice(delta, donors, Head(queue)),
                    Append(ordered, Head(queue)), delta, donors)

build_ordered_list_iterative(recv, baselevel) ==
    LET delta == ndonors_to_delta(count_donors(recv))
        donors == make_donor_array(recv, delta)
    IN  DrainQueue(baselevel, <<>>, delta, donors)

(***************************************************************************)
(* Accumulator (cfuncs.accumulate_flow).                                   *)
(***************************************************************************)
\* One pass over `ordered`, visiting positions i, i + step, ... while in range.
RECURSIVE FoldFlow(_, _, _, _, _)
FoldFlow(recv, ordered, accum, i, step) ==
    IF i < 1 \/ i > Len(ordered) THEN accum
    ELSE LET donor == ordered[i]
             recvr == recv[donor + 1]
             next == IF donor # recvr
                     THEN [accum EXCEPT ![recvr + 1] = @ + accum[donor + 1]]
                     ELSE accum
         IN  FoldFlow(recv, ordered, next, i + step, step)

\* Headwaters first, outlets last: the reverse of the discovery order.
accumulate_flow(recv, ordered, weights) ==
    FoldFlow(recv, ordered, weights.data, Len(ordered), -1)

(***************************************************************************)
(* Downstream profile (cfuncs.get_profile).                                *)
(***************************************************************************)
\* The geotransform of the raster file: (ulx, dx, _, uly, _, dy).
GeoTransform == [ulx |-> 12, dx |-> 6, uly |-> 40, dy |-> -8]

Abs(x) == IF x < 0 THEN -x ELSE x

Hypot(a, b) == CHOOSE h \in 0..(Abs(a) + Abs(b)) : h * h = a * a + b * b

\* Length of the step out of a cell with the given direction code.
StepLength(code, dx, dy) ==
    CASE code \in {1, 16} -> Abs(dx)
      [] code \in {4, 64} -> Abs(dy)
      [] OTHER -> Hypot(dx, dy)

Diverges == [profile |-> <<-1>>, distance |-> <<-1>>]

\* The walk n -> receivers[n] -> ... until a self-loop.  A walk that has made
\* as many steps as there are nodes has come back to a node it has already
\* visited and, being deterministic, never ends: Diverges stands for it.
RECURSIVE Walk(_, _, _, _, _, _, _, _)
Walk(recv, directions, dx, dy, cur, profile, distance, fuel) ==
    IF recv[cur + 1] = cur THEN [profile |-> profile, distance |-> distance]
    ELSE IF fuel = 0 THEN Diverges
    ELSE Walk(recv, directions, dx, dy, recv[cur + 1],
              Append(profile, recv[cur + 1]),
              Append(distance,
                     distance[Len(distance)] + StepLength(directions[cur + 1], dx, dy)),
              fuel - 1)

cf_get_profile(start_node, dx, dy, recv, directions) ==
    Walk(recv, directions, dx, dy, start_node, <<start_node>>, <<0>>, Len(recv))

\* numpy.amax
RECURSIVE AMax(_)
AMax(s) == IF Len(s) = 1 THEN s[1]
           ELSE LET m == AMax(Tail(s)) IN IF s[1] > m THEN s[1] ELSE m

(***************************************************************************)
(* Channel segments (cfuncs.get_channel_segments).                         *)
(***************************************************************************)
\* The donors of node n, in the order of its donor slice, whose field value
\* exceeds the threshold.
QualifyingDonors(n, delta, donors, field, threshold) ==
    SelectSeq(DonorSlice(delta, donors, n), LAMBDA d : field[d + 1] > threshold)

\* The depth-first walk.  `stack` holds the nodes that start the segments
\* still to be walked, `segment` is the segment being walked (<<>> between
\* two segments).  A segment goes on through a single qualifying donor and
\* ends where there is none or more than one; each of several qualifying
\* donors starts a segment of its own.
RECURSIVE WalkSegments(_, _, _, _, _, _, _)
WalkSegments(stack, segment, segments, delta, donors, field, threshold) ==
    IF segment = <<>>
    THEN IF stack = <<>> THEN segments
         ELSE WalkSegments(Tail(stack), <<Head(stack)>>, segments,
                           delta, donors, field, threshold)
    ELSE LET q == QualifyingDonors(segment[Len(segment)], delta, donors,
                                   field, threshold)
         IN  IF Len(q) = 1
             THEN WalkSegments(stack, Append(segment, q[1]), segments,
                               delta, donors, field, threshold)
             ELSE WalkSegments(q \o stack, <<>>, Append(segments, segment),
                               delta, donors, field, threshold)

cf_get_channel_segments(starting_nodes, delta, donors, field, threshold) ==
    WalkSegments(starting_nodes, <<>>, <<>>, delta, donors, field, threshold)

(***************************************************************************)
(* The calls of D8Accumulator.  Each leaves its outcome in `result`:       *)
(* "returned" with the value, the name of the exception raised, or         *)
(* "diverges" for a call that never returns.                               *)
(***************************************************************************)
NoCall == [op |-> "none"]

None == [shape |-> <<>>, data |-> <<>>]

\* The alerts table before update_alerts_table has written it: no file.
NoTable == [exists |-> FALSE, rows |-> <<>>]

Ones(n) == [shape |-> <<n>>, data |-> [i \in 1..n |-> 1]]

\* The derived state of an accumulator whose array is a.
Derive(a) ==
    LET recv == d8_to_receivers(a)
        base == BaselevelOf(recv)
    IN  /\ receivers' = recv
        /\ baselevel_nodes' = base
        /\ order' = build_ordered_list_iterative(recv, base)

\* D8Accumulator.__init__: the raster read from the file is a 2-D grid.
FromFile(a) ==
    /\ result = NoCall
    /\ UNCHANGED network
    /\ arr' = a
    /\ ds' = TRUE
    /\ Derive(a)
    /\ result' = [op |-> "init", outcome |-> "returned"]

\* D8Accumulator.from_array
FromArray(a) ==
    /\ result = NoCall
    /\ UNCHANGED network
    /\ IF Len(a.shape) # 2
       THEN /\ result' = [op |-> "from_array", shape |-> a.shape,
                         outcome |-> "ValueError"]
            /\ UNCHANGED <<arr, ds, receivers, baselevel_nodes, order>>
       ELSE /\ arr' = a
            /\ ds' = FALSE
            /\ Derive(a)
            /\ result' = [op |-> "from_array", shape |-> a.shape,
                         outcome |-> "returned"]

\* Mutant: the setter replaces the array and the receivers and keeps the
\* order it had.
SetArrKeepingOrder(a) ==
    /\ result = NoCall
    /\ UNCHANGED network
    /\ IF Len(a.shape) # 2
       THEN /\ result' = [op |-> "set_arr", shape |-> a.shape,
                         outcome |-> "ValueError"]
            /\ UNCHANGED <<arr, ds, receivers, baselevel_nodes, order>>
       ELSE /\ arr' = a
            /\ ds' = FALSE
            /\ receivers' = d8_to_receivers(a)
            /\ baselevel_nodes' = BaselevelOf(d8_to_receivers(a))
            /\ order' = order
            /\ result' = [op |-> "set_arr", shape |-> a.shape,
                         outcome |-> "returned"]

\* Mutant: the setter drops the dataset before it checks the array.
SetArrDroppingDataset(a) ==
    /\ result = NoCall
    /\ UNCHANGED network
    /\ IF Len(a.shape) # 2
       THEN /\ result' = [op |-> "set_arr", shape |-> a.shape,
                         outcome |-> "ValueError"]
            /\ ds' = FALSE
            /\ UNCHANGED <<arr, receivers, baselevel_nodes, order>>
       ELSE /\ arr' = a
            /\ ds' = FALSE
            /\ Derive(a)
            /\ result' = [op |-> "set_arr", shape |-> a.shape,
                         outcome |-> "returned"]

\* D8Accumulator.arr (setter)
SetArr(a) ==
    /\ result = NoCall
    /\ UNCHANGED network
    /\ IF Len(a.shape) # 2
       THEN /\ result' = [op |-> "set_arr", shape |-> a.shape,
                         outcome |-> "ValueError"]
            /\ UNCHANGED <<arr, ds, receivers, baselevel_nodes, order>>
       ELSE /\ arr' = a
            /\ ds' = FALSE
            /\ Derive(a)
            /\ result' = [op |-> "set_arr", shape |-> a.shape,
                         outcome |-> "returned"]

\* Mutant: the weights are checked by their number of elements, not by their
\* shape.
AccumulateResultCheckingSize(weights) ==
    IF weights # None /\ Len(weights.data) # NNodes(arr)
    THEN [outcome |-> "ValueError", value |-> None]
    ELSE [outcome |-> "returned",
          value |-> Reshape([shape |-> <<Len(receivers)>>,
                             data |-> accumulate_flow(receivers, order,
                                 IF weights = None THEN Ones(Len(receivers))
                                 ELSE Flatten(weights))],
                            arr.shape)]

\* Mutant: the weights passed in are ignored, every node weighs 1.
AccumulateResultIgnoringWeights(weights) ==
    IF weights # None /\ weights.shape # arr.shape
    THEN [outcome |-> "ValueError", value |-> None]
    ELSE [outcome |-> "returned",
          value |-> Reshape([shape |-> <<Len(receivers)>>,
                             data |-> accumulate_flow(receivers, order,
                                                      Ones(Len(receivers)))],
                            arr.shape)]

\* Mutant: omitted weights default to zeros.
AccumulateResultZeroDefault(weights) ==
    IF weights # None /\ weights.shape # arr.shape
    THEN [outcome |-> "ValueError", value |-> None]
    ELSE [outcome |-> "returned",
          value |-> Reshape([shape |-> <<Len(receivers)>>,
                             data |-> accumulate_flow(receivers, order,
                                 IF weights = None
                                 THEN [shape |-> <<Len(receivers)>>,
                                       data |-> [i \in 1..Len(receivers) |-> 0]]
                                 ELSE Flatten(weights))],
                            arr.shape)]

\* Mutant: a node's own weight is left out of its value, which counts the
\* nodes upstream of it only.
AccumulateResultExcludingSelf(weights) ==
    IF weights # None /\ weights.shape # arr.shape
    THEN [outcome |-> "ValueError", value |-> None]
    ELSE LET used == IF weights = None THEN Ones(Len(receivers))
                     ELSE Flatten(weights)
             flow == accumulate_flow(receivers, order, used)
         IN  [outcome |-> "returned",
              value |-> Reshape([shape |-> <<Len(receivers)>>,
                                 data |-> [i \in 1..Len(flow) |->
                                              flow[i] - used.data[i]]],
                                arr.shape)]

\* Mutant: the order is handed to the accumulation back to front.
AccumulateResultOrderReversed(weights) ==
    IF weights # None /\ weights.shape # arr.shape
    THEN [outcome |-> "ValueError", value |-> None]
    ELSE [outcome |-> "returned",
          value |-> Reshape([shape |-> <<Len(receivers)>>,
                             data |-> accumulate_flow(receivers,
                                 [i \in 1..Len(order) |-> order[Len(order) + 1 - i]],
                                 IF weights = None THEN Ones(Len(receivers))
                                 ELSE Flatten(weights))],
                            arr.shape)]

\* D8Accumulator.accumulate; weights = None stands for the omitted argument.
AccumulateResult(weights) ==
    IF weights = None
    THEN [outcome |-> "returned",
          value |-> Reshape([shape |-> <<Len(receivers)>>,
                             data |-> accumulate_flow(receivers, order,
                                                      Ones(Len(receivers)))],
                            arr.shape)]
    ELSE IF weights.shape # arr.shape
    THEN [outcome |-> "ValueError", value |-> None]
    ELSE [outcome |-> "returned",
          value |-> Reshape([shape |-> <<Len(receivers)>>,
                             data |-> accumulate_flow(receivers, order,
                                                      Flatten(weights))],
                            arr.shape)]

\* The walk takes the nodes off the order as it visits them.
AccumulateConsumingOrder(weights) ==
    /\ result = NoCall
    /\ UNCHANGED network
    /\ result' = [op |-> "accumulate", weights |-> weights,
                  outcome |-> AccumulateResult(weights).outcome,
                  value |-> AccumulateResult(weights).value]
    /\ order' = <<>>
    /\ UNCHANGED <<arr, ds, receivers, baselevel_nodes>>

Accumulate(weights) ==
    /\ result = NoCall
    /\ UNCHANGED network
    /\ result' = [op |-> "accumulate", weights |-> weights,
                  outcome |-> AccumulateResult(weights).outcome,
                  value |-> AccumulateResult(weights).value]
    /\ UNCHANGED <<arr, ds, receivers, baselevel_nodes, order>>

\* Reverse of a sequence.
Reversed(s) == [i \in 1..Len(s) |-> s[Len(s) + 1 - i]]

\* Mutant: the profile is returned from the mouth to the start node.
ProfileResultMouthFirst(start_node) ==
    IF start_node < 0 \/ start_node >= NNodes(arr)
    THEN [outcome |-> "ValueError", profile |-> <<>>, distance |-> <<>>]
    ELSE IF ~ds
    THEN [outcome |-> "AttributeError", profile |-> <<>>, distance |-> <<>>]
    ELSE LET got == cf_get_profile(start_node, GeoTransform.dx,
                                   GeoTransform.dy * (-1), receivers,
                                   Flatten(arr).data)
         IN  IF got = Diverges
             THEN [outcome |-> "diverges", profile |-> <<>>, distance |-> <<>>]
             ELSE [outcome |-> "returned", profile |-> Reversed(got.profile),
                   distance |-> got.distance]

\* Mutant: a profile of one node is taken for an empty one.
ProfileResultDroppingSingle(start_node) ==
    IF start_node < 0 \/ start_node >= NNodes(arr)
    THEN [outcome |-> "ValueError", profile |-> <<>>, distance |-> <<>>]
    ELSE IF ~ds
    THEN [outcome |-> "AttributeError", profile |-> <<>>, distance |-> <<>>]
    ELSE LET got == cf_get_profile(start_node, GeoTransform.dx,
                                   GeoTransform.dy * (-1), receivers,
                                   Flatten(arr).data)
         IN  IF got = Diverges
             THEN [outcome |-> "diverges", profile |-> <<>>, distance |-> <<>>]
             ELSE IF Len(got.profile) <= 1
             THEN [outcome |-> "returned", profile |-> <<>>, distance |-> <<>>]
             ELSE [outcome |-> "returned", profile |-> got.profile,
                   distance |-> [i \in 1..Len(got.distance) |->
                                    AMax(got.distance) - got.distance[i]]]

\* D8Accumulator.get_profile
ProfileResult(start_node) ==
    IF start_node < 0 \/ start_node >= NNodes(arr)
    THEN [outcome |-> "ValueError", profile |-> <<>>, distance |-> <<>>]
    ELSE IF ~ds
    THEN [outcome |-> "AttributeError", profile |-> <<>>, distance |-> <<>>]
    ELSE LET dx == GeoTransform.dx
             dy == GeoTransform.dy * (-1)
             got == cf_get_profile(start_node, dx, dy, receivers, Flatten(arr).data)
         IN  IF got = Diverges
             THEN [outcome |-> "diverges", profile |-> <<>>, distance |-> <<>>]
             ELSE IF Len(got.profile) = 0
             THEN [outcome |-> "returned", profile |-> <<>>, distance |-> <<>>]
             ELSE [outcome |-> "returned", profile |-> got.profile,
                   distance |-> [i \in 1..Len(got.distance) |->
                                    AMax(got.distance) - got.distance[i]]]

GetProfile(start_node) ==
    /\ result = NoCall
    /\ UNCHANGED network
    /\ result' = [op |-> "get_profile", start_node |-> start_node,
                  outcome |-> ProfileResult(start_node).outcome,
                  profile |-> ProfileResult(start_node).profile,
                  distance |-> ProfileResult(start_node).distance]
    /\ UNCHANGED <<arr, ds, receivers, baselevel_nodes, order>>

\* The call in progress returns (or its exception reaches the caller); a
\* call that diverges never does.
Return ==
    /\ result # NoCall
    /\ UNCHANGED network
    /\ result.outcome # "diverges"
    /\ result' = NoCall
    /\ UNCHANGED <<arr, ds, receivers, baselevel_nodes, order>>

\* Python's int() of the quotient a / b: rounds towards zero.
TruncDiv(a, b) ==
    IF (a >= 0) = (b > 0) THEN Abs(a) \div Abs(b) ELSE -(Abs(a) \div Abs(b))

\* D8Accumulator.node_to_coord
NodeToCoordResult(node) ==
    LET nrows == NRows(arr)
        ncols == NCols(arr)
    IN  IF node > ncols * nrows \/ node < 0
        THEN [outcome |-> "ValueError", x |-> 0, y |-> 0]
        ELSE IF ~ds
        THEN [outcome |-> "AttributeError", x |-> 0, y |-> 0]
        ELSE LET x_ind == node % ncols
                 y_ind == node \div ncols
                 gt == GeoTransform
             IN  [outcome |-> "returned",
                  x |-> gt.ulx + gt.dx * x_ind + gt.dx \div 2,
                  y |-> gt.uly + gt.dy * y_ind + TruncDiv(gt.dy, 2)]

NodeToCoord(node) ==
    /\ result = NoCall
    /\ UNCHANGED network
    /\ result' = [op |-> "node_to_coord", node |-> node,
                  outcome |-> NodeToCoordResult(node).outcome,
                  x |-> NodeToCoordResult(node).x,
                  y |-> NodeToCoordResult(node).y]
    /\ UNCHANGED <<arr, ds, receivers, baselevel_nodes, order>>

\* D8Accumulator.coord_to_node
CoordToNodeResult(x, y) ==
    LET nrows == NRows(arr)
        ncols == NCols(arr)
        gt == GeoTransform
    IN  IF ~ds
        THEN [outcome |-> "AttributeError", node |-> -1]
        ELSE LET x_ind == TruncDiv(x - gt.ulx, gt.dx)
                 y_ind == TruncDiv(y - gt.uly, gt.dy)
                 out == y_ind * ncols + x_ind
             IN  IF out > ncols * nrows \/ out < 0
                 THEN [outcome |-> "ValueError", node |-> -1]
                 ELSE [outcome |-> "returned", node |-> out]

CoordToNode(x, y) ==
    /\ result = NoCall
    /\ UNCHANGED network
    /\ result' = [op |-> "coord_to_node", x |-> x, y |-> y,
                  outcome |-> CoordToNodeResult(x, y).outcome,
                  node |-> CoordToNodeResult(x, y).node]
    /\ UNCHANGED <<arr, ds, receivers, baselevel_nodes, order>>

\* Mutant: the donor index of an array in which every node is its own
\* receiver, whatever the receivers are.
DonorIndexOfSinks(recv) ==
    [n_donors |-> count_donors(ARange(Len(recv))),
     delta |-> ndonors_to_delta(count_donors(ARange(Len(recv)))),
     donors |-> make_donor_array(ARange(Len(recv)),
                                 ndonors_to_delta(count_donors(ARange(Len(recv)))))]

\* The donor index as get_channel_segments builds it from the receivers.
DonorIndex(recv) ==
    [n_donors |-> count_donors(recv),
     delta |-> ndonors_to_delta(count_donors(recv)),
     donors |-> make_donor_array(recv, ndonors_to_delta(count_donors(recv)))]

\* Mutant: the walks start at every baselevel node, whatever its field value.
ChannelSegmentsResultFromEveryOutlet(field, threshold) ==
    LET flat == Flatten(field).data
        is_baselevel == [i \in 1..Len(receivers) |->
                            receivers[i] = ARange(Len(receivers))[i]]
        starting_nodes == SelectSeq(ARange(Len(receivers)),
                              LAMBDA n : is_baselevel[n + 1])
        index == DonorIndex(receivers)
    IN  [outcome |-> "returned",
         delta |-> index.delta,
         donors |-> index.donors,
         segments |-> cf_get_channel_segments(starting_nodes, index.delta,
                                              index.donors, flat, threshold),
         returned_as |-> IF ds THEN "MultiLineString" ELSE "node ids"]

\* Mutant: the walks start at the baselevel nodes whose field value is at
\* least the threshold.
ChannelSegmentsResultFromEqual(field, threshold) ==
    LET flat == Flatten(field).data
        gteq_thresh == [i \in 1..Len(flat) |-> flat[i] >= threshold]
        is_baselevel == [i \in 1..Len(receivers) |->
                            receivers[i] = ARange(Len(receivers))[i]]
        starting_nodes == SelectSeq(ARange(Len(receivers)),
                              LAMBDA n : gteq_thresh[n + 1] /\ is_baselevel[n + 1])
        index == DonorIndex(receivers)
    IN  [outcome |-> "returned",
         delta |-> index.delta,
         donors |-> index.donors,
         segments |-> cf_get_channel_segments(starting_nodes, index.delta,
                                              index.donors, flat, threshold),
         returned_as |-> IF ds THEN "MultiLineString" ELSE "node ids"]

\* D8Accumulator.get_channel_segments.  `segments` are the segments of node
\* ids that cfuncs.get_channel_segments returns; with a dataset they are
\* handed on as a MultiLineString of the nodes' coordinates, without one
\* they are returned as they are.
ChannelSegmentsResult(field, threshold) ==
    LET flat == Flatten(field).data
        gteq_thresh == [i \in 1..Len(flat) |-> flat[i] > threshold]
        is_baselevel == [i \in 1..Len(receivers) |->
                            receivers[i] = ARange(Len(receivers))[i]]
        starting_nodes == SelectSeq(ARange(Len(receivers)),
                              LAMBDA n : gteq_thresh[n + 1] /\ is_baselevel[n + 1])
        index == DonorIndex(receivers)
    IN  [outcome |-> "returned",
         delta |-> index.delta,
         donors |-> index.donors,
         segments |-> cf_get_channel_segments(starting_nodes, index.delta,
                                              index.donors, flat, threshold),
         returned_as |-> IF ds THEN "MultiLineString" ELSE "node ids"]

GetChannelSegments(field, threshold) ==
    /\ result = NoCall
    /\ UNCHANGED network
    /\ result' = [op |-> "get_channel_segments", field |-> field,
                  threshold |-> threshold,
                  outcome |-> ChannelSegmentsResult(field, threshold).outcome,
                  delta |-> ChannelSegmentsResult(field, threshold).delta,
                  donors |-> ChannelSegmentsResult(field, threshold).donors,
                  segments |-> ChannelSegmentsResult(field, threshold).segments,
                  returned_as |-> ChannelSegmentsResult(field, threshold).returned_as]
    /\ UNCHANGED <<arr, ds, receivers, baselevel_nodes, order>>

(***************************************************************************)
(* Inputs of the calls.                                                    *)
(***************************************************************************)
WeightValues == 0..MaxWeight

\* Weight arguments of every shape, 2-D and flattened, and the omitted one.
AnyWeights ==
    {None} \cup UNION { Arrays(s, WeightValues) : s \in Shapes2D \cup Shapes1D }

\* Weight arguments of the grid's own shape, its flattened form, and the
\* omitted one.
FittingWeights ==
    {None} \cup Arrays(arr.shape, WeightValues)

\* Fields of the grid's own shape, and the thresholds around their values.
FittingFields == Arrays(arr.shape, WeightValues)

Thresholds == 0..MaxWeight

\* The weight arguments that give every node the weight 1: the omitted one
\* and the array of ones.
UnitWeights ==
    {None, [shape |-> arr.shape, data |-> [i \in 1..NNodes(arr) |-> 1]]}

\* Weights of either sign, and the weight arguments of the grid's own shape
\* drawn from them.
SignedWeightValues == (-1)..MaxWeight

SignedWeights == {None} \cup Arrays(arr.shape, SignedWeightValues)

\* Arrays that are not 2-dimensional: the flattened ones and, of the
\* 3-dimensional ones, those with a single element.
FlatArrays(codes) == UNION { Arrays(<<n>>, codes) : n \in 1..MaxCols }

NonGridArrays(codes) == FlatArrays(codes) \cup Arrays(<<1, 1, 1>>, codes)

\* Node ids around the valid range [0, N).
NodeIds == -1..(NNodes(arr) + 1)

\* Points on a half-cell lattice that reaches PointPad half-cells beyond each
\* edge of the grid extent.
PointsX ==
    { GeoTransform.ulx + k * (GeoTransform.dx \div 2) :
        k \in (-PointPad)..(2 * NCols(arr) + PointPad) }

PointsY ==
    { GeoTransform.uly + k * TruncDiv(GeoTransform.dy, 2) :
        k \in (-PointPad)..(2 * NRows(arr) + PointPad) }

(***************************************************************************)
(* Spec: the life cycle of one accumulator and every call on it, over      *)
(* grids of the codes RowCodes.                                             *)
(***************************************************************************)
\* An accumulator as its construction leaves it: from a file (the dataset
\* is held) or from an array (it is not).
\* Mutant: the order is kept from upstream to downstream, the reverse of
\* the order of discovery.
InitOnUpstreamFirst(grids, datasets) ==
    \E a \in grids :
        /\ arr = a
        /\ ds \in datasets
        /\ receivers = d8_to_receivers(a)
        /\ baselevel_nodes = BaselevelOf(d8_to_receivers(a))
        /\ order = [i \in 1..Len(build_ordered_list_iterative(d8_to_receivers(a),
                                     BaselevelOf(d8_to_receivers(a)))) |->
                        build_ordered_list_iterative(d8_to_receivers(a),
                            BaselevelOf(d8_to_receivers(a)))[
                                Len(build_ordered_list_iterative(d8_to_receivers(a),
                                    BaselevelOf(d8_to_receivers(a)))) + 1 - i]]
        /\ result = NoCall
        /\ events = <<>>
        /\ monitors = <<>>
        /\ timestamp = 0
        /\ now = 0
        /\ alerts = NoTable

InitOn(grids, datasets) ==
    \E a \in grids :
        /\ arr = a
        /\ ds \in datasets
        /\ receivers = d8_to_receivers(a)
        /\ baselevel_nodes = BaselevelOf(d8_to_receivers(a))
        /\ order = build_ordered_list_iterative(d8_to_receivers(a),
                                                BaselevelOf(d8_to_receivers(a)))
        /\ result = NoCall
        /\ events = <<>>
        /\ monitors = <<>>
        /\ timestamp = 0
        /\ now = 0
        /\ alerts = NoTable

InitWith(codes, datasets) == InitOn(Grids(codes), datasets)

Init == InitWith(RowCodes, BOOLEAN)

Next ==
    \/ \E a \in Grids(RowCodes) : FromFile(a)
    \/ \E a \in Grids(RowCodes) \cup NonGridArrays(RowCodes) : FromArray(a)
    \/ \E a \in Grids(RowCodes) \cup NonGridArrays(RowCodes) : SetArr(a)
    \/ \E w \in AnyWeights : Accumulate(w)
    \/ \E n \in NodeIds : GetProfile(n)
    \/ \E n \in NodeIds : NodeToCoord(n)
    \/ \E x \in PointsX, y \in PointsY : CoordToNode(x, y)
    \/ \E f \in FittingFields, t \in Thresholds : GetChannelSegments(f, t)
    \/ Return

Spec == Init /\ [][Next]_vars

(***************************************************************************)
(* SpecFlow: accumulation on an accumulator built from a file, over grids  *)
(* of all nine direction codes.                                            *)
(***************************************************************************)
InitFlow == InitWith(D8Codes, {TRUE})

NextFlow ==
    \/ \E w \in FittingWeights : Accumulate(w)
    \/ Return

SpecFlow == InitFlow /\ [][NextFlow]_vars

(***************************************************************************)
(* SpecProfile: downstream profiles on an accumulator built either way,    *)
(* over grids of all nine direction codes.                                 *)
(***************************************************************************)
InitProfile == InitWith(D8Codes, BOOLEAN)

NextProfile ==
    \/ \E n \in NodeIds : GetProfile(n)
    \/ Return

SpecProfile == InitProfile /\ [][NextProfile]_vars

(***************************************************************************)
(* SpecSegments: channel segments on an accumulator built from an array,   *)
(* over grids of all nine direction codes.                                 *)
(***************************************************************************)
InitSegments == InitWith(D8Codes, {FALSE})

NextSegments ==
    \/ \E f \in FittingFields, t \in Thresholds : GetChannelSegments(f, t)
    \/ Return

SpecSegments == InitSegments /\ [][NextSegments]_vars

(***************************************************************************)
(* SpecSigned: accumulation of weights of either sign, over grids of the   *)
(* cardinal direction codes.                                               *)
(***************************************************************************)
InitSigned == InitWith(CardinalCodes, {TRUE})

NextSigned ==
    \/ \E w \in SignedWeights : Accumulate(w)
    \/ Return

SpecSigned == InitSigned /\ [][NextSigned]_vars

(***************************************************************************)
(* SpecUnit: accumulation with every weight 1, over grids of all nine      *)
(* direction codes and over the 3x3 grids that drain to one outlet.        *)
(***************************************************************************)
InitUnit == InitOn(Grids(D8Codes) \cup OutletGrids, {TRUE})

NextUnit ==
    \/ \E w \in UnitWeights : Accumulate(w)
    \/ Return

SpecUnit == InitUnit /\ [][NextUnit]_vars

(***************************************************************************)
(* Events (poopy.Event and its subclasses Discharge, Offline and           *)
(* NoDischarge).  Times are whole days; NoTime stands for None.            *)
(***************************************************************************)
NoTime == -1

\* datetime.timedelta(hours=48), in days
RecentWindow == 2

EventTypes == {"Discharging", "Offline", "Not Discharging"}

Times == 0..MaxTime

TimesOrNone == Times \cup {NoTime}

\* Monitor._current_event = None
NoEvent ==
    [event_type |-> "None", ongoing |-> FALSE,
     start_time |-> NoTime, end_time |-> NoTime]

\* Event.duration as its callers evaluate it: nan without a start time, the
\* time from start_time to end_time (not ongoing) or to now (ongoing)
\* otherwise; None - datetime raises TypeError.
DurationResult(ongoing, start_time, end_time) ==
    IF start_time = NoTime THEN "nan"
    ELSE IF ~ongoing /\ end_time = NoTime THEN "TypeError"
    ELSE "minutes"

\* Event._validate; datetime < None raises TypeError.
ValidateResult(ongoing, start_time, end_time) ==
    IF ongoing /\ end_time # NoTime THEN "ValueError"
    ELSE IF end_time # NoTime /\ start_time = NoTime THEN "TypeError"
    ELSE IF end_time # NoTime /\ end_time < start_time THEN "ValueError"
    ELSE "returned"

\* Event.__init__: the attributes are stored, the duration is evaluated,
\* then the event is validated.
EventInitResult(ongoing, start_time, end_time) ==
    IF DurationResult(ongoing, start_time, end_time) = "TypeError"
    THEN "TypeError"
    ELSE ValidateResult(ongoing, start_time, end_time)

\* The constructors of the three subclasses: event_type names the subclass.
NewEvent(event_type, ongoing, start_time, end_time) ==
    /\ result = NoCall
    /\ Len(events) < MaxEvents
    /\ result' = [op |-> "Event", event_type |-> event_type,
                  ongoing |-> ongoing, start_time |-> start_time,
                  end_time |-> end_time,
                  outcome |-> EventInitResult(ongoing, start_time, end_time)]
    /\ events' =
          IF EventInitResult(ongoing, start_time, end_time) = "returned"
          THEN Append(events, [event_type |-> event_type, ongoing |-> ongoing,
                               start_time |-> start_time, end_time |-> end_time])
          ELSE events
    /\ UNCHANGED <<monitors, timestamp, now, alerts>>
    /\ UNCHANGED accumulator

\* Event.ongoing (setter), called at time t.
SetOngoingResult(event, value, t) ==
    IF value THEN [outcome |-> "ValueError", event |-> event]
    ELSE IF ~event.ongoing THEN [outcome |-> "ValueError", event |-> event]
    ELSE [outcome |-> "returned",
          event |-> [event EXCEPT !.ongoing = value, !.end_time = t]]

\* event.ongoing = value on the e-th event.
SetOngoing(e, value) ==
    /\ result = NoCall
    /\ e \in 1..Len(events)
    /\ result' = [op |-> "set_ongoing", value |-> value,
                  outcome |-> SetOngoingResult(events[e], value, now).outcome]
    /\ events' = [events EXCEPT ![e] = SetOngoingResult(events[e], value, now).event]
    /\ UNCHANGED <<monitors, timestamp, now, alerts>>
    /\ UNCHANGED accumulator

\* Time passes between two calls.
Tick ==
    /\ result = NoCall
    /\ now < MaxTime
    /\ now' = now + 1
    /\ UNCHANGED <<result, events, monitors, timestamp, alerts>>
    /\ UNCHANGED accumulator

\* The events a constructor call can build.
ConstructibleEvents ==
    { ev \in [event_type : EventTypes, ongoing : BOOLEAN,
              start_time : TimesOrNone, end_time : TimesOrNone] :
        EventInitResult(ev.ongoing, ev.start_time, ev.end_time) = "returned" }

(***************************************************************************)
(* Monitors and the water company (poopy.Monitor, poopy.WaterCompany,      *)
(* companies.YorkshireWater).                                              *)
(***************************************************************************)
Sites == 1..NumSites

\* The rows of the current-status response fetched at time t, one per site.
RowValues(t) ==
    [Status : {1, 0, -1}, StatusStart : 0..t,
     LatestEventEnd : {NoTime} \cup 0..t, null_island : BOOLEAN]

Rows(t) == [Sites -> RowValues(t)]

\* Mutant: the flag is worked out from the end of the latest event alone,
\* whatever the status.
RowToMonitorByLatestEnd(row, current_time) ==
    [current_event |-> NoEvent,
     discharge_in_last_48h |->
        IF row.LatestEventEnd # NoTime
        THEN IF current_time - row.LatestEventEnd <= RecentWindow
             THEN "True" ELSE "False"
        ELSE "None"]

\* YorkshireWater._row_to_monitor: a new Monitor, without a current event
\* yet; discharge_in_last_48h is True, False or None.
RowToMonitor(row, current_time) ==
    [current_event |-> NoEvent,
     discharge_in_last_48h |->
        IF row.Status = 1 THEN "True"
        ELSE IF row.LatestEventEnd # NoTime
        THEN IF current_time - row.LatestEventEnd <= RecentWindow
             THEN "True" ELSE "False"
        ELSE "None"]

\* YorkshireWater._row_to_event
RowToEvent(row) ==
    [event_type |-> CASE row.Status = 1 -> "Discharging"
                      [] row.Status = 0 -> "Not Discharging"
                      [] row.Status = -1 -> "Offline",
     ongoing |-> TRUE,
     start_time |-> row.StatusStart,
     end_time |-> NoTime]

\* Monitor.current_event (setter)
SetCurrentEventResult(monitor, event) ==
    IF ~event.ongoing
    THEN [outcome |-> "ValueError", monitor |-> monitor]
    ELSE [outcome |-> "returned",
          monitor |-> [monitor EXCEPT !.current_event = event]]

\* WaterCompany._fetch_active_monitors: a monitor per row, with the event of
\* the row as its current event; monitors on Null Island are skipped.
FetchActiveMonitors(rows, current_time) ==
    [s \in { r \in DOMAIN rows : ~rows[r].null_island } |->
        SetCurrentEventResult(RowToMonitor(rows[s], current_time),
                              RowToEvent(rows[s])).monitor]

\* WaterCompany.update: the monitors are fetched, then the timestamp is set.
Update(rows) ==
    /\ result = NoCall
    /\ monitors' = FetchActiveMonitors(rows, timestamp)
    /\ timestamp' = now
    /\ result' = [op |-> "update", outcome |-> "returned"]
    /\ UNCHANGED <<events, now, alerts>>
    /\ UNCHANGED accumulator

\* monitor.current_event = event on a monitor of the company.
SetCurrentEvent(site, event) ==
    /\ result = NoCall
    /\ site \in DOMAIN monitors
    /\ result' = [op |-> "set_current_event", site |-> site, event |-> event,
                  outcome |-> SetCurrentEventResult(monitors[site], event).outcome]
    /\ monitors' = [monitors EXCEPT
                      ![site] = SetCurrentEventResult(monitors[site], event).monitor]
    /\ UNCHANGED <<events, timestamp, now, alerts>>
    /\ UNCHANGED accumulator

\* monitor.current_event.ongoing = value on a monitor of the company.
SetCurrentOngoing(site, value) ==
    /\ result = NoCall
    /\ site \in DOMAIN monitors
    /\ result' = [op |-> "set_ongoing", value |-> value,
                  outcome |-> SetOngoingResult(monitors[site].current_event,
                                               value, now).outcome]
    /\ monitors' = [monitors EXCEPT ![site].current_event =
                      SetOngoingResult(monitors[site].current_event, value, now).event]
    /\ UNCHANGED <<events, timestamp, now, alerts>>
    /\ UNCHANGED accumulator

\* Monitor.current_status
CurrentStatus(site) == monitors[site].current_event.event_type

\* WaterCompany.discharging_monitors, as the set of their sites.
DischargingMonitors ==
    { s \in DOMAIN monitors : CurrentStatus(s) = "Discharging" }

\* WaterCompany.recently_discharging_monitors: None and False are both falsy.
RecentlyDischargingMonitors ==
    { s \in DOMAIN monitors : monitors[s].discharge_in_last_48h = "True" }

(***************************************************************************)
(* Histories (WaterCompany._alerts_df_to_events_list) and                  *)
(* Monitor.recent_discharge_at.                                            *)
(***************************************************************************)
\* Start times of k events, newest first.
DescendingStarts(k, t) ==
    { st \in [1..k -> 0..t] : \A i \in 1..(k - 1) : st[i] > st[i + 1] }

\* Of two events that follow each other exactly one is a NoDischarge: the
\* time between two discharges or outages.
AlternatingTypes(k) ==
    { ty \in [1..k -> EventTypes] :
        \A i \in 1..(k - 1) :
            (ty[i] = "Not Discharging") # (ty[i + 1] = "Not Discharging") }

\* The current event first, then the past events, each ending where the
\* event after it starts.
MakeHistory(st, ty) ==
    [i \in 1..Len(st) |->
        [event_type |-> ty[i],
         ongoing |-> (i = 1),
         start_time |-> st[i],
         end_time |-> IF i = 1 THEN NoTime ELSE st[i - 1]]]

Histories(t) ==
    UNION { { MakeHistory(st, ty) :
                st \in DescendingStarts(k, t), ty \in AlternatingTypes(k) } :
            k \in 1..MaxHistory }

\* The while loop of recent_discharge_at, entered with the 0-based index i.
RECURSIVE ScanBack(_, _, _)
ScanBack(history, i, time) ==
    IF i + 2 < Len(history)
    THEN LET prev_event == history[i + 2]
             time_diff == time - prev_event.end_time
         IN  IF time_diff > RecentWindow THEN FALSE
             ELSE IF prev_event.event_type = "Discharging" THEN TRUE
             ELSE ScanBack(history, i + 1, time)
    ELSE FALSE

\* The for loop of recent_discharge_at from the 0-based index i on, at time t.
RECURSIVE SearchFrom(_, _, _, _)
SearchFrom(history, i, time, t) ==
    IF i >= Len(history) THEN FALSE
    ELSE LET event == history[i + 1]
             start == event.start_time
             end == IF event.ongoing THEN t ELSE event.end_time
         IN  IF start < time /\ time < end
             THEN IF event.event_type = "Discharging" THEN TRUE
                  ELSE ScanBack(history, i, time)
             ELSE SearchFrom(history, i + 1, time, t)

\* Monitor.recent_discharge_at, called at time t.
RecentDischargeAtResult(history, time, t) ==
    IF time > t THEN [outcome |-> "ValueError", value |-> FALSE]
    ELSE [outcome |-> "returned", value |-> SearchFrom(history, 0, time, t)]

RecentDischargeAt(site, time) ==
    /\ result = NoCall
    /\ site \in DOMAIN monitors
    /\ result' = [op |-> "recent_discharge_at", site |-> site, time |-> time,
                  outcome |-> RecentDischargeAtResult(monitors[site].history,
                                                      time, now).outcome,
                  value |-> RecentDischargeAtResult(monitors[site].history,
                                                    time, now).value]
    /\ UNCHANGED network
    /\ UNCHANGED accumulator

(***************************************************************************)
(* The alerts table (WaterCompany.update_alerts_table).  Here times are    *)
(* whole seconds, the resolution of the DateTime column.  A table is a     *)
(* record [exists, rows]; its rows are newest first, each with the index   *)
(* label of its position and the columns LocationName, DateTime, AlertType *)
(* and Note.  The columns that no code reads back are left out.            *)
(***************************************************************************)
\* datetime.timedelta(seconds=1) and datetime.timedelta(minutes=1)
Second == 1

Minute == 60

AlertTypes == {"Start", "Stop", "Offline start", "Offline stop"}

\* The times, in seconds, at which events start and the company looks.
Instants == {0, 2, 30, 90}

\* poopy.make_alert_row: a DataFrame of one row, whose index label is 0.
make_alert_row(site, alert_type, datetime_obj, note) ==
    [index |-> 0, LocationName |-> site, DateTime |-> datetime_obj,
     AlertType |-> alert_type, Note |-> note]

\* poopy._make_start_alert_row: the alert of the start of the current event
\* of the monitor.
make_start_alert_row(site) ==
    LET event == monitors[site].current_event
        alert_type == CASE event.event_type = "Not Discharging" -> "Stop"
                        [] event.event_type = "Discharging" -> "Start"
                        [] event.event_type = "Offline" -> "Offline start"
    IN  IF event.start_time = NoTime
        THEN make_alert_row(site, alert_type, timestamp, "No start time")
        ELSE make_alert_row(site, alert_type, event.start_time, "")

make_offline_stop_alert_row(site, endtime) ==
    make_alert_row(site, "Offline stop", endtime, "Imputed")

make_stop_alert_row(site, endtime) ==
    make_alert_row(site, "Stop", endtime, "Imputed")

\* pd.concat([row, alerts])
Prepend(row, frame) == <<row>> \o frame

\* alerts[alerts["LocationName"] == name]
RowsOf(frame, site) == SelectSeq(frame, LAMBDA r : r.LocationName = site)

\* alerts.at[row_index, "Note"] = note: every row that carries the label.
SetNote(frame, row_index, note) ==
    [i \in 1..Len(frame) |->
        IF frame[i].index = row_index THEN [frame[i] EXCEPT !.Note = note]
        ELSE frame[i]]

\* The body of the loop over the monitors for a monitor that has alerts in
\* the table: the frame it leaves and how it ends ("next" for the next
\* monitor, or the name of the exception raised).
CompareWithLastAlert(frame, site) ==
    LET event == monitors[site].current_event
        last_alert == RowsOf(frame, site)[1]
        last_time == last_alert.DateTime
        current_alert_row == make_start_alert_row(site)
        current_time == current_alert_row.DateTime
        prev_alert == last_alert.AlertType
        new_alert == current_alert_row.AlertType
        Continue(f) == [outcome |-> "next", frame |-> f]
        Raises(e) == [outcome |-> e, frame |-> frame]
    IN  IF last_time = current_time THEN Continue(frame)
        ELSE IF prev_alert = "Stop" /\ new_alert = "Start"
        THEN Continue(Prepend(current_alert_row, frame))
        ELSE IF prev_alert = "Start" /\ new_alert = "Stop"
        THEN Continue(Prepend(current_alert_row, frame))
        ELSE IF prev_alert = "Offline start" /\ new_alert = "Start"
        THEN IF current_time < last_time
             THEN Continue(Prepend(make_alert_row(site, "Start", timestamp, "Shifted"),
                       Prepend(make_offline_stop_alert_row(site, timestamp - Second),
                               frame)))
             ELSE IF event.start_time = NoTime THEN Raises("TypeError")
             ELSE Continue(Prepend(current_alert_row,
                       Prepend(make_offline_stop_alert_row(
                                   site, event.start_time - Second),
                               frame)))
        ELSE IF prev_alert = "Offline start" /\ new_alert = "Stop"
        THEN IF current_time < last_time
             THEN Continue(Prepend(make_alert_row(site, "Stop", timestamp, "Shifted"),
                       Prepend(make_offline_stop_alert_row(site, timestamp - Second),
                               frame)))
             ELSE LET start_time == IF event.start_time = NoTime THEN now
                                    ELSE event.start_time
                  IN  Continue(Prepend(make_offline_stop_alert_row(
                                       site, start_time - Second),
                                   frame))
        ELSE IF prev_alert = "Stop" /\ new_alert = "Offline start"
        THEN Continue(Prepend(current_alert_row, frame))
        ELSE IF prev_alert = "Offline stop" /\ new_alert = "Offline start"
        THEN Continue(Prepend(current_alert_row, frame))
        ELSE IF prev_alert = "Start" /\ new_alert = "Offline start"
        THEN IF event.start_time = NoTime THEN Raises("TypeError")
             ELSE Continue(Prepend(current_alert_row,
                       Prepend(make_stop_alert_row(site, event.start_time - Minute),
                               frame)))
        ELSE IF prev_alert = new_alert
        THEN IF event.start_time = NoTime THEN Continue(frame)
             ELSE IF current_time < last_time THEN Continue(frame)
             ELSE Continue(SetNote(frame, last_alert.index, "Missed"))
        ELSE IF prev_alert = "Offline stop" /\ new_alert = "Stop"
        THEN Continue(SetNote(frame, last_alert.index, "Missed"))
        ELSE Raises("RuntimeError")

\* The loop over the monitors from site s on, when the table exists.
RECURSIVE UpdateFrom(_, _)
UpdateFrom(frame, s) ==
    IF s \notin DOMAIN monitors THEN [outcome |-> "next", frame |-> frame]
    ELSE IF RowsOf(frame, s) = <<>>
    THEN UpdateFrom(Prepend(make_start_alert_row(s), frame), s + 1)
    ELSE LET done == CompareWithLastAlert(frame, s)
         IN  IF done.outcome = "next" THEN UpdateFrom(done.frame, s + 1)
             ELSE done

\* The loop over the monitors when there is no table yet.
RECURSIVE CreateFrom(_, _)
CreateFrom(frame, s) ==
    IF s \notin DOMAIN monitors THEN [outcome |-> "next", frame |-> frame]
    ELSE CreateFrom(Append(frame, make_start_alert_row(s)), s + 1)

\* alerts.sort_values(by="DateTime", ascending=False): the sort is not a
\* stable one, so rows of equal DateTime come out in any order.
RECURSIVE SortedByDateTime(_)
SortedByDateTime(frame) ==
    IF frame = <<>> THEN {<<>>}
    ELSE UNION { { <<frame[i]>> \o rest :
                     rest \in SortedByDateTime(
                         SubSeq(frame, 1, i - 1) \o SubSeq(frame, i + 1, Len(frame))) } :
                 i \in { j \in 1..Len(frame) :
                           \A k \in 1..Len(frame) :
                               frame[k].DateTime <= frame[j].DateTime } }

\* alerts.reset_index(drop=True)
ResetIndex(frame) == [i \in 1..Len(frame) |-> [frame[i] EXCEPT !.index = i - 1]]

\* What the call leaves in memory before it sorts and writes.
AlertsFrame ==
    IF alerts.exists THEN UpdateFrom(alerts.rows, 1) ELSE CreateFrom(<<>>, 1)

\* WaterCompany.update_alerts_table.  The table is written at the end of
\* the call: a call that raises leaves the file as it was.
UpdateAlertsTable ==
    /\ result = NoCall
    /\ Len(alerts.rows) + 2 * NumSites <= MaxAlerts
    /\ result' = [op |-> "update_alerts_table",
                  outcome |-> IF AlertsFrame.outcome = "next" THEN "returned"
                              ELSE AlertsFrame.outcome]
    /\ IF AlertsFrame.outcome = "next"
       THEN \E sorted \in SortedByDateTime(AlertsFrame.frame) :
               alerts' = [exists |-> TRUE, rows |-> ResetIndex(sorted)]
       ELSE UNCHANGED alerts
    /\ UNCHANGED <<events, monitors, timestamp, now>>
    /\ UNCHANGED accumulator

\* The current events that an update of the company finds at time t: an
\* ongoing event of one of the three types for each monitor, which started
\* at a time up to t or has no start time.
OngoingEvents(t) ==
    [event_type : EventTypes, ongoing : {TRUE},
     start_time : {NoTime} \cup { i \in Instants : i <= t }, end_time : {NoTime}]

ObservedMonitors(t) ==
    { [s \in Sites |-> [current_event |-> current[s],
                        discharge_in_last_48h |-> "None",
                        history |-> <<>>]] :
        current \in [Sites -> OngoingEvents(t)] }

\* WaterCompany.update, for any company: the monitors are fetched and the
\* timestamp is set.
Observe(fetched) ==
    /\ result = NoCall
    /\ monitors' = fetched
    /\ timestamp' = now
    /\ result' = [op |-> "update", outcome |-> "returned"]
    /\ UNCHANGED <<events, now, alerts>>
    /\ UNCHANGED accumulator

\* Time passes until a later instant.
Elapse(t) ==
    /\ result = NoCall
    /\ t > now
    /\ now' = t
    /\ UNCHANGED <<result, events, monitors, timestamp, alerts>>
    /\ UNCHANGED accumulator

(***************************************************************************)
(* SpecEvent: events are built and ended while time passes.                *)
(***************************************************************************)
\* WaterCompany._accumulator = None: no accumulator has been built.
NoAccumulator ==
    /\ arr = None
    /\ ds = FALSE
    /\ receivers = <<>>
    /\ baselevel_nodes = <<>>
    /\ order = <<>>

InitEvent ==
    /\ NoAccumulator
    /\ result = NoCall
    /\ events = <<>>
    /\ monitors = <<>>
    /\ timestamp = 0
    /\ now = 0
    /\ alerts = NoTable

NextEvent ==
    \/ \E k \in EventTypes, o \in BOOLEAN, s \in TimesOrNone, e \in TimesOrNone :
          NewEvent(k, o, s, e)
    \/ \E e \in 1..MaxEvents, v \in BOOLEAN : SetOngoing(e, v)
    \/ Tick
    \/ Return

SpecEvent == InitEvent /\ [][NextEvent]_vars

(***************************************************************************)
(* SpecCompany: a water company after its construction; its monitors are   *)
(* fetched again, their current events are replaced and ended.             *)
(***************************************************************************)
\* WaterCompany.__init__ at time t: the timestamp is set, then the monitors
\* are fetched.
InitCompany ==
    \E t \in Times : \E rows \in Rows(t) :
        /\ NoAccumulator
        /\ result = [op |-> "WaterCompany", outcome |-> "returned"]
        /\ events = <<>>
        /\ timestamp = t
        /\ monitors = FetchActiveMonitors(rows, t)
        /\ now = t
        /\ alerts = NoTable

NextCompany ==
    \/ \E rows \in Rows(now) : Update(rows)
    \/ \E s \in Sites, ev \in ConstructibleEvents : SetCurrentEvent(s, ev)
    \/ \E s \in Sites, v \in BOOLEAN : SetCurrentOngoing(s, v)
    \/ Tick
    \/ Return

SpecCompany == InitCompany /\ [][NextCompany]_vars

(***************************************************************************)
(* SpecHistory: recent_discharge_at on a monitor whose history is set.     *)
(***************************************************************************)
InitHistory ==
    \E t \in Times : \E h \in Histories(t) :
        /\ NoAccumulator
        /\ result = NoCall
        /\ events = <<>>
        /\ timestamp = t
        /\ monitors = [s \in Sites |->
                          [current_event |-> h[1],
                           discharge_in_last_48h |-> "None",
                           history |-> h]]
        /\ now = t
        /\ alerts = NoTable

NextHistory ==
    \/ \E s \in Sites, time \in 0..(MaxTime + 1) : RecentDischargeAt(s, time)
    \/ Return

SpecHistory == InitHistory /\ [][NextHistory]_vars

(***************************************************************************)
(* accumulate, one iteration of the walk at a time.  A call copies its     *)
(* weights (np.ones or weights.flatten()), walks the order, and returns    *)
(* the reshaped copy.  Several calls may be in progress on one             *)
(* accumulator: each has its own copy and its own position, and all read   *)
(* receivers and order.                                                    *)
(***************************************************************************)
\* Where a walk of `ordered` begins: at the back when it goes in reverse
\* (step -1), at the front when it goes forwards (step 1).
FirstPositionAtFront(ordered, step) == 1

FirstPosition(ordered, step) == IF step = -1 THEN Len(ordered) ELSE 1

\* One iteration of the walk, at position i of `ordered`.
FoldOnce(recv, ordered, accum, i) ==
    LET donor == ordered[i]
        recvr == recv[donor + 1]
    IN  IF donor # recvr
        THEN [accum EXCEPT ![recvr + 1] = @ + accum[donor + 1]]
        ELSE accum

\* A call that has copied its weights and has not visited a node yet;
\* `visited` lists the nodes whose iteration has run, in that order.
StartCall(weights, step) ==
    [weights |-> weights,
     step |-> step,
     accum |-> IF weights = None THEN Ones(Len(receivers)).data
               ELSE Flatten(weights).data,
     i |-> FirstPosition(order, step),
     visited |-> <<>>,
     pc |-> "walking",
     value |-> None]

\* The next step of a call: one iteration while a position is left, the
\* reshape and return after the last one.
AdvanceCall(call) ==
    IF call.i \in 1..Len(order)
    THEN [call EXCEPT !.accum = FoldOnce(receivers, order, call.accum, call.i),
                      !.visited = Append(call.visited, order[call.i]),
                      !.i = call.i + call.step]
    ELSE [call EXCEPT !.pc = "returned",
                      !.value = Reshape([shape |-> <<Len(receivers)>>,
                                         data |-> call.accum],
                                        arr.shape)]

\* The calls of `weights` (one weight argument per call) are entered.
BeginCalls(weights, step) ==
    /\ result = NoCall
    /\ result' = [op |-> "accumulate calls",
                  calls |-> [t \in 1..Len(weights) |-> StartCall(weights[t], step)]]
    /\ UNCHANGED accumulator
    /\ UNCHANGED network

CallsInProgress == result.op = "accumulate calls"

\* Every call walks in the one buffer that the last step wrote.
StepCallInSharedBuffer(t) ==
    /\ CallsInProgress
    /\ t \in 1..Len(result.calls)
    /\ result.calls[t].pc = "walking"
    /\ result' = [result EXCEPT !.calls =
                     [u \in 1..Len(result.calls) |->
                         IF u = t THEN AdvanceCall(result.calls[t])
                         ELSE [result.calls[u] EXCEPT !.accum =
                                  AdvanceCall(result.calls[t]).accum]]]
    /\ UNCHANGED accumulator
    /\ UNCHANGED network

\* Call t takes its next step.
StepCall(t) ==
    /\ CallsInProgress
    /\ t \in 1..Len(result.calls)
    /\ result.calls[t].pc = "walking"
    /\ result' = [result EXCEPT !.calls[t] = AdvanceCall(result.calls[t])]
    /\ UNCHANGED accumulator
    /\ UNCHANGED network

\* Every call has returned to its caller.
JoinCalls ==
    /\ CallsInProgress
    /\ \A t \in 1..Len(result.calls) : result.calls[t].pc = "returned"
    /\ result' = NoCall
    /\ UNCHANGED accumulator
    /\ UNCHANGED network

(***************************************************************************)
(* SpecFold: one accumulate call at a time, step by step, walking the      *)
(* order in reverse (the engine's direction) or forwards (the direction of *)
(* the order itself), over grids of the four cardinal codes and 0.         *)
(***************************************************************************)
Directions == {-1, 1}

InitFold == InitWith(CardinalCodes, {TRUE})

NextFold ==
    \/ \E w \in FittingWeights, step \in Directions : BeginCalls(<<w>>, step)
    \/ \E t \in 1..MaxCalls : StepCall(t)
    \/ JoinCalls

SpecFold == InitFold /\ [][NextFold]_vars

(***************************************************************************)
(* SpecParallel: MaxCalls accumulate calls with different weights in       *)
(* progress at once on one accumulator, their steps interleaved.           *)
(***************************************************************************)
\* One weight array per call, no two the same.
DifferentWeights ==
    { ws \in [1..MaxCalls -> Arrays(arr.shape, WeightValues)] :
        \A t, u \in 1..MaxCalls : ws[t] = ws[u] => t = u }

\* Grids whose every cell points west or north: node 0 is an outlet, and
\* the 2 x 2 ones hold chains of three nodes and a confluence.
InitParallel == InitWith({16, 64}, {TRUE})

NextParallel ==
    \/ \E ws \in DifferentWeights : BeginCalls(ws, -1)
    \/ \E t \in 1..MaxCalls : StepCall(t)
    \/ JoinCalls

SpecParallel == InitParallel /\ [][NextParallel]_vars

(***************************************************************************)
(* SpecCalls: accumulate, get_profile and get_channel_segments called in   *)
(* any order on an accumulator built from a file whose arr is not          *)
(* replaced, over grids of the four cardinal codes and 0.                  *)
(***************************************************************************)
InitCalls == InitWith(CardinalCodes, {TRUE})

NextCalls ==
    \/ \E w \in FittingWeights : Accumulate(w)
    \/ \E n \in NodeIds : GetProfile(n)
    \/ \E f \in FittingFields, t \in Thresholds : GetChannelSegments(f, t)
    \/ Return

SpecCalls == InitCalls /\ [][NextCalls]_vars

(***************************************************************************)
(* SpecAlerts: a company keeps its alerts table: it is updated at some     *)
(* instants, finding its monitors in any status, and update_alerts_table   *)
(* is called at any time in between.                                       *)
(***************************************************************************)
InitAlerts ==
    \E t \in Instants : \E fetched \in ObservedMonitors(t) :
        /\ NoAccumulator
        /\ result = [op |-> "WaterCompany", outcome |-> "returned"]
        /\ events = <<>>
        /\ timestamp = t
        /\ monitors = fetched
        /\ now = t
        /\ alerts = NoTable

NextAlerts ==
    \/ \E fetched \in ObservedMonitors(now) : Observe(fetched)
    \/ \E t \in Instants : Elapse(t)
    \/ UpdateAlertsTable
    \/ Return

SpecAlerts == InitAlerts /\ [][NextAlerts]_vars

(***************************************************************************)
(* SpecImpact: the downstream impact of a list of source monitors          *)
(* (WaterCompany._calculate_downstream_impact, _calculate_downstream_info) *)
(* on the company's accumulator, which is built from its D8 file.          *)
(***************************************************************************)
\* Coordinates of the centres of the cells, and of the cells one row or one
\* column outside the grid.
SourceXs ==
    { GeoTransform.ulx + GeoTransform.dx * c + GeoTransform.dx \div 2 :
        c \in (-1)..NCols(arr) }

SourceYs ==
    { GeoTransform.uly + GeoTransform.dy * r + TruncDiv(GeoTransform.dy, 2) :
        r \in (-1)..NRows(arr) }

\* Lists of distinct monitors: the monitor at position i is named i.
SourceLists ==
    UNION { { s \in [1..k -> [site_name : 1..MaxSources,
                              x_coord : SourceXs, y_coord : SourceYs]] :
                \A i \in 1..k : s[i].site_name = i } : k \in 0..MaxSources }

\* Monitor.node
MonitorNode(monitor) == CoordToNodeResult(monitor.x_coord, monitor.y_coord)

\* The nodes appended to source_nodes: those of the monitors that
\* coord_to_node accepts.
SourceNodes(source_monitors) ==
    { MonitorNode(source_monitors[i]).node :
        i \in { j \in 1..Len(source_monitors) :
                  MonitorNode(source_monitors[j]).outcome = "returned" } }

\* source_array = zeros; source_array[source_nodes] = 1; reshape
SourceArray(source_nodes, source_monitors) ==
    [shape |-> arr.shape,
     data |-> [i \in 1..NNodes(arr) |-> IF i - 1 \in source_nodes THEN 1 ELSE 0]]

\* WaterCompany._calculate_downstream_impact
DownstreamImpactResult(source_monitors) ==
    LET source_nodes == SourceNodes(source_monitors)
    IN  IF \E i \in 1..Len(source_monitors) :
               MonitorNode(source_monitors[i]).outcome = "AttributeError"
        THEN [outcome |-> "AttributeError", value |-> None]
        ELSE IF \E n \in source_nodes : n >= NNodes(arr)
        THEN [outcome |-> "IndexError", value |-> None]
        ELSE AccumulateResult(SourceArray(source_nodes, source_monitors))

\* for node in dstream: dstream_info[node]["CSOs"].append(monitor.site_name)
RECURSIVE AppendAlong(_, _, _)
AppendAlong(dstream_info, dstream, site_name) ==
    IF dstream = <<>> THEN [outcome |-> "returned", info |-> dstream_info]
    ELSE IF Head(dstream) \notin DOMAIN dstream_info
    THEN [outcome |-> "KeyError", info |-> dstream_info]
    ELSE AppendAlong([dstream_info EXCEPT ![Head(dstream)].CSOs =
                                              Append(@, site_name)],
                     Tail(dstream), site_name)

\* for monitor in sources: ... (the loop that fills the lists of CSOs)
RECURSIVE AddSources(_, _)
AddSources(dstream_info, sources) ==
    IF sources = <<>> THEN [outcome |-> "returned", info |-> dstream_info]
    ELSE LET monitor == Head(sources)
             located == MonitorNode(monitor)
         IN  IF located.outcome = "ValueError"
             THEN AddSources(dstream_info, Tail(sources))
             ELSE IF located.outcome # "returned"
             THEN [outcome |-> located.outcome, info |-> dstream_info]
             ELSE LET got == ProfileResult(located.node)
                  IN  IF got.outcome # "returned"
                      THEN [outcome |-> got.outcome, info |-> dstream_info]
                      ELSE LET added == AppendAlong(dstream_info, got.profile,
                                                    monitor.site_name)
                           IN  IF added.outcome # "returned" THEN added
                               ELSE AddSources(added.info, Tail(sources))

\* WaterCompany._calculate_downstream_info.  The drainage area is counted in
\* cells: number_CSOs_per_km2 is the quotient of the pair's first entry by
\* the second times the area of a cell.
DownstreamInfoResult(sources) ==
    LET got == DownstreamImpactResult(sources)
    IN  IF got.outcome # "returned"
        THEN [outcome |-> got.outcome, features |-> <<>>]
        ELSE LET impact == got.value.data
                 drainage_area == AccumulateResult(
                                      Reshape(Ones(NNodes(arr)), arr.shape)).value.data
                 dstream_nodes == SelectSeq(ARange(NNodes(arr)),
                                            LAMBDA n : impact[n + 1] > 0)
                 dstream_info ==
                     [node \in { dstream_nodes[i] : i \in 1..Len(dstream_nodes) } |->
                        [number_upstream_CSOs |-> impact[node + 1],
                         number_CSOs_per_km2 |->
                             <<impact[node + 1], drainage_area[node + 1]>>,
                         CSOs |-> <<>>]]
                 filled == AddSources(dstream_info, sources)
             IN  IF filled.outcome # "returned"
                 THEN [outcome |-> filled.outcome, features |-> <<>>]
                 ELSE [outcome |-> "returned",
                       features |->
                           [i \in 1..Len(dstream_nodes) |->
                              [node |-> dstream_nodes[i],
                               geometry |->
                                   <<NodeToCoordResult(dstream_nodes[i]).x,
                                     NodeToCoordResult(dstream_nodes[i]).y>>,
                               properties |-> filled.info[dstream_nodes[i]]]]]

CalculateDownstreamImpact(source_monitors) ==
    /\ result = NoCall
    /\ UNCHANGED network
    /\ LET got == DownstreamImpactResult(source_monitors)
       IN  result' = [op |-> "_calculate_downstream_impact",
                      sources |-> source_monitors,
                      outcome |-> got.outcome, value |-> got.value]
    /\ UNCHANGED <<arr, ds, receivers, baselevel_nodes, order>>

CalculateDownstreamInfo(sources) ==
    /\ result = NoCall
    /\ UNCHANGED network
    /\ LET got == DownstreamInfoResult(sources)
       IN  result' = [op |-> "_calculate_downstream_info",
                      sources |-> sources,
                      outcome |-> got.outcome, features |-> got.features]
    /\ UNCHANGED <<arr, ds, receivers, baselevel_nodes, order>>

\* The accumulator of a water company is read from its D8 file.
InitImpact == InitWith(ImpactCodes, {TRUE})

NextImpact ==
    \/ \E sources \in SourceLists : CalculateDownstreamImpact(sources)
    \/ \E sources \in SourceLists : CalculateDownstreamInfo(sources)
    \/ Return

SpecImpact == InitImpact /\ [][NextImpact]_vars

(***************************************************************************)
(* Vocabulary of the properties, stated on the direction codes of arr      *)
(* alone.                                                                  *)
(***************************************************************************)
Nodes == 0..(NNodes(arr) - 1)

RowOf(n) == n \div NCols(arr)

ColOf(n) == n % NCols(arr)

CodeOf(n) == arr.data[n + 1]

\* (row, column) offset of the neighbour each code names.
Offsets ==
    [k \in D8Codes |->
        CASE k = 0 -> <<0, 0>>
          [] k = 1 -> <<0, 1>>      \* E
          [] k = 2 -> <<1, 1>>      \* SE
          [] k = 4 -> <<1, 0>>      \* S
          [] k = 8 -> <<1, -1>>     \* SW
          [] k = 16 -> <<0, -1>>    \* W
          [] k = 32 -> <<-1, -1>>   \* NW
          [] k = 64 -> <<-1, 0>>    \* N
          [] k = 128 -> <<-1, 1>>]  \* NE

NeighbourRow(n) == RowOf(n) + Offsets[CodeOf(n)][1]

NeighbourCol(n) == ColOf(n) + Offsets[CodeOf(n)][2]

NeighbourInGrid(n) ==
    /\ NeighbourRow(n) \in 0..(NRows(arr) - 1)
    /\ NeighbourCol(n) \in 0..(NCols(arr) - 1)

\* A node keeps its flow: its code is 0 or names a neighbour off the grid.
IsSink(n) == CodeOf(n) = 0 \/ ~NeighbourInGrid(n)

\* Where the flow of node n goes, read off the grid.
FlowsTo(n) ==
    IF IsSink(n) THEN n ELSE NeighbourRow(n) * NCols(arr) + NeighbourCol(n)

RECURSIVE Downstream(_, _)
Downstream(n, k) == IF k = 0 THEN n ELSE Downstream(FlowsTo(n), k - 1)

\* The nodes on the flow path out of n, n included.
Chain(n) == { Downstream(n, k) : k \in 0..NNodes(arr) }

\* The flow path out of n ends at a sink (it does not run into a cycle).
Drains(n) == \E m \in Chain(n) : IsSink(m)

\* The nodes whose flow path passes through n, n included.
Upstream(n) == { m \in Nodes : n \in Chain(m) }

\* The grid has no cycle of flow directions.
Acyclic == \A n \in Nodes : Drains(n)

SeqSet(s) == { s[i] : i \in 1..Len(s) }

NoRepeats(s) == \A i, j \in 1..Len(s) : s[i] = s[j] => i = j

RECURSIVE SumOver(_, _)
SumOver(S, w) ==
    IF S = {} THEN 0
    ELSE LET n == CHOOSE x \in S : TRUE IN w[n + 1] + SumOver(S \ {n}, w)

AccumulateReturned == result.op = "accumulate" /\ result.outcome = "returned"

\* The weight of every node in the call in progress: 1 when none were given.
WeightsUsed ==
    IF result.weights = None THEN [i \in 1..NNodes(arr) |-> 1]
    ELSE result.weights.data

C4_DerivedStateIsCurrent ==
    /\ receivers = d8_to_receivers(arr)
    /\ \A n \in Nodes : receivers[n + 1] = FlowsTo(n)
    /\ baselevel_nodes = BaselevelOf(d8_to_receivers(arr))
    /\ order = build_ordered_list_iterative(d8_to_receivers(arr),
                                            BaselevelOf(d8_to_receivers(arr)))
    /\ AccumulateReturned =>
          \A n \in Nodes :
              result.value.data[n + 1] =
                  IF Drains(n) THEN SumOver(Upstream(n), WeightsUsed)
                  ELSE WeightsUsed[n + 1]
    /\ (result.op = "get_profile" /\ result.outcome = "returned") =>
          \A i \in 1..Len(result.profile) :
              result.profile[i] = Downstream(result.start_node, i - 1)
    /\ (result.op = "get_channel_segments" /\ result.outcome = "returned") =>
          \A i \in 1..Len(result.segments) :
              /\ \A j \in 2..Len(result.segments[i]) :
                     FlowsTo(result.segments[i][j]) = result.segments[i][j - 1]
              /\ \/ IsSink(result.segments[i][1])
                 \/ \E k \in 1..Len(result.segments) :
                        FlowsTo(result.segments[i][1])
                            = result.segments[k][Len(result.segments[k])]

\* The array has been replaced through the setter by a grid with other
\* receivers than the all-sink grid has, and the order follows them.
C4_Witness ==
    /\ result.op = "set_arr"
    /\ result.outcome = "returned"
    /\ arr.shape = <<2, 2>>
    /\ \E n \in Nodes : receivers[n + 1] # n
    /\ Len(order) = 4
    /\ order # ARange(4)

(***************************************************************************)
(* C6.  As claimed: accumulate raises the shape-mismatch error exactly     *)
(* when weights is given and its flattened length differs from the number  *)
(* of nodes; it is accepted otherwise, 2-D or flattened.                   *)
(***************************************************************************)
C6_RaisesOnLengthMismatch ==
    result.op = "accumulate" =>
        (result.outcome = "ValueError"
            <=> (result.weights # None
                 /\ Len(result.weights.data) # NNodes(arr)))

(***************************************************************************)
(* C6, amended.  accumulate raises the shape-mismatch error, returning no  *)
(* result, exactly when weights is given and its shape differs from the    *)
(* shape of arr: a flattened array is rejected even when its length is the *)
(* number of nodes, and so is a 2-D array of the transposed shape.         *)
(***************************************************************************)
C6_RaisesOnShapeMismatch ==
    result.op = "accumulate" =>
        /\ result.outcome \in {"ValueError", "returned"}
        /\ result.outcome = "ValueError"
              <=> (result.weights # None /\ result.weights.shape # arr.shape)
        /\ result.outcome = "ValueError" => result.value = None
        /\ result.outcome = "returned" => result.value.shape = arr.shape

\* A flattened weight array with one weight per node is rejected.
C6_Witness ==
    /\ result.op = "accumulate"
    /\ result.weights # None
    /\ Len(result.weights.shape) = 1
    /\ Len(result.weights.data) = NNodes(arr)
    /\ NNodes(arr) = 4
    /\ result.outcome = "ValueError"

(***************************************************************************)
(* C7.  On an accumulator that holds its dataset, node_to_coord and        *)
(* get_profile raise the out-of-bounds error for every node id outside     *)
(* [0, rows * cols), the id rows * cols included.                          *)
(***************************************************************************)
C7_RejectsNodesOutOfRange ==
    /\ (ds /\ result.op = "node_to_coord" /\ result.node \notin Nodes)
          => result.outcome = "ValueError"
    /\ (ds /\ result.op = "get_profile" /\ result.start_node \notin Nodes)
          => result.outcome = "ValueError"

(***************************************************************************)
(* The grid extent and the cells, in the coordinates of the dataset.       *)
(***************************************************************************)
XMin == GeoTransform.ulx

XMax == GeoTransform.ulx + GeoTransform.dx * NCols(arr)

YMax == GeoTransform.uly

YMin == GeoTransform.uly + GeoTransform.dy * NRows(arr)

\* The cell of node n, edges included, contains the point (x, y).
CellContains(n, x, y) ==
    /\ XMin + GeoTransform.dx * ColOf(n) <= x
    /\ x <= XMin + GeoTransform.dx * (ColOf(n) + 1)
    /\ YMax + GeoTransform.dy * (RowOf(n) + 1) <= y
    /\ y <= YMax + GeoTransform.dy * RowOf(n)

(***************************************************************************)
(* C8.  On an accumulator that holds its dataset, coord_to_node returns    *)
(* the index of a cell that contains the point when the point lies inside  *)
(* the grid extent, raises ValueError when the point lies outside it, and  *)
(* never returns anything but the index of a cell containing the point.    *)
(***************************************************************************)
C8_CoordToNodeFindsTheCell ==
    (ds /\ result.op = "coord_to_node") =>
        LET x == result.x
            y == result.y
        IN  /\ (XMin < x /\ x < XMax /\ YMin < y /\ y < YMax) =>
                  result.outcome = "returned"
            /\ (x < XMin \/ x > XMax \/ y < YMin \/ y > YMax) =>
                  result.outcome = "ValueError"
            /\ result.outcome = "returned" =>
                  /\ result.node \in Nodes
                  /\ CellContains(result.node, x, y)

(***************************************************************************)
(* Vocabulary of the profile properties.                                   *)
(***************************************************************************)
ProfileCalled == result.op = "get_profile"

\* The sequence starts at the start node, steps from each node to that
\* node's receiver and ends at a baselevel node.
IsFlowPath(profile, start_node) ==
    /\ Len(profile) >= 1
    /\ profile[1] = start_node
    /\ \A i \in 1..(Len(profile) - 1) :
          /\ profile[i + 1] = receivers[profile[i] + 1]
          /\ profile[i + 1] # profile[i]
    /\ receivers[profile[Len(profile)] + 1] = profile[Len(profile)]
    /\ profile[Len(profile)] \in SeqSet(baselevel_nodes)

SegmentsCalled ==
    result.op = "get_channel_segments" /\ result.outcome = "returned"

FieldOf(n) == result.field.data[n + 1]

InSegments(n) ==
    \E i \in 1..Len(result.segments) : n \in SeqSet(result.segments[i])

(***************************************************************************)
(* C11.  As claimed: when get_channel_segments is called with a threshold  *)
(* equal to the field value of a node, that node is included in the        *)
(* returned segments, both when it is a baselevel node at which a walk     *)
(* starts and when it is a donor met on the walk.                          *)
(***************************************************************************)
C11_IncludesNodesAtThreshold ==
    SegmentsCalled =>
        \A n \in Nodes :
            FieldOf(n) = result.threshold =>
                /\ IsSink(n) => InSegments(n)
                /\ (~IsSink(n) /\ InSegments(FlowsTo(n))) => InSegments(n)

(***************************************************************************)
(* C11, amended.  The comparison is strict: the segments hold the          *)
(* baselevel nodes whose field value is greater than the threshold and     *)
(* the donors, met from them, whose field value is greater than the        *)
(* threshold, and no other node; a node whose field value equals the       *)
(* threshold is in no segment.                                             *)
(***************************************************************************)
C11_ExcludesNodesAtThreshold ==
    SegmentsCalled =>
        \A n \in Nodes :
            InSegments(n) <=>
                /\ FieldOf(n) > result.threshold
                /\ IsSink(n) \/ InSegments(FlowsTo(n))

\* A call whose threshold is the field value of a baselevel node and of a
\* donor of a baselevel node that is in a segment: both are left out.
C11_Witness ==
    /\ SegmentsCalled
    /\ \E n \in Nodes :
          IsSink(n) /\ FieldOf(n) = result.threshold /\ ~InSegments(n)
    /\ \E n \in Nodes :
          /\ ~IsSink(n)
          /\ FieldOf(n) = result.threshold
          /\ IsSink(FlowsTo(n))
          /\ InSegments(FlowsTo(n))
          /\ ~InSegments(n)

(***************************************************************************)
(* C12.  As claimed: for every grid and every weight array that accumulate *)
(* accepts, the value returned at each node is at least the node's own     *)
(* weight.                                                                 *)
(***************************************************************************)
C12_AtLeastOwnWeight ==
    AccumulateReturned =>
        \A n \in Nodes : result.value.data[n + 1] >= WeightsUsed[n + 1]

(***************************************************************************)
(* C12, amended.  For every grid and every accepted weight array without   *)
(* a negative entry (the omitted one included), the value returned at each *)
(* node is at least the node's own weight; accumulate accepts negative     *)
(* weights too, and upstream of them the value can be smaller.             *)
(***************************************************************************)
C12_AtLeastOwnWeightWhenNonNegative ==
    (AccumulateReturned /\ \A n \in Nodes : WeightsUsed[n + 1] >= 0) =>
        \A n \in Nodes : result.value.data[n + 1] >= WeightsUsed[n + 1]

\* Weights without a negative entry have been accumulated on a grid where
\* some node receives flow: its value exceeds its own weight, while a node
\* nothing drains to has exactly its own weight.
C12_Witness ==
    /\ AccumulateReturned
    /\ result.weights # None
    /\ \A n \in Nodes : WeightsUsed[n + 1] >= 0
    /\ \E n \in Nodes : result.value.data[n + 1] > WeightsUsed[n + 1]
    /\ \E n \in Nodes :
          WeightsUsed[n + 1] = 1 /\ result.value.data[n + 1] = 1

C14_DonorReceiverDuality ==
    SegmentsCalled =>
        \A n \in Nodes :
            n \in SeqSet(DonorSlice(result.delta, result.donors, receivers[n + 1]))
                <=> receivers[n + 1] # n

\* The index has been built for a 2x2 grid with a node that has two donors,
\* a baselevel node without donors and a cycle-free flow.
C14_Witness ==
    /\ SegmentsCalled
    /\ arr.shape = <<2, 2>>
    /\ Acyclic
    /\ \E n \in Nodes :
          Len(DonorSlice(result.delta, result.donors, n)) = 2
    /\ \E n \in Nodes :
          /\ receivers[n + 1] = n
          /\ Len(DonorSlice(result.delta, result.donors, n)) = 0

(***************************************************************************)
(* Vocabulary of the order properties.                                     *)
(***************************************************************************)
\* The positions of node n in the order.
PositionsOf(n) == { i \in 1..Len(order) : order[i] = n }

\* The number of baselevel nodes, read off the receivers.
NBaselevel == Cardinality({ n \in Nodes : receivers[n + 1] = n })

C16_RejectsNonGridArrays ==
    [][ (result = NoCall /\ result'.op \in {"from_array", "set_arr"}) =>
            IF Len(result'.shape) # 2
            THEN /\ result'.outcome = "ValueError"
                 /\ UNCHANGED accumulator
            ELSE result'.outcome = "returned" ]_vars

\* The setter has rejected a flattened array on an accumulator that holds a
\* dataset and a 1x2 grid flowing east: it still does.
C16_Witness ==
    /\ result.op = "set_arr"
    /\ result.outcome = "ValueError"
    /\ Len(result.shape) = 1
    /\ ds
    /\ arr = [shape |-> <<1, 2>>, data |-> <<1, 0>>]
    /\ receivers = <<1, 1>>

(***************************************************************************)
(* C17.  As claimed: after any sequence of current_event assignments, of   *)
(* assignments of False to the ongoing attribute of an event and of        *)
(* update calls, every monitor that has a current event has one that is    *)
(* ongoing and whose end_time is None; assigning an event that is not      *)
(* ongoing as current_event raises ValueError and leaves the previous      *)
(* current event in place.                                                 *)
(***************************************************************************)
C17_CurrentEventIsOngoing ==
    /\ [](\A s \in DOMAIN monitors :
            monitors[s].current_event # NoEvent =>
                /\ monitors[s].current_event.ongoing
                /\ monitors[s].current_event.end_time = NoTime)
    /\ [][ (result = NoCall /\ result'.op = "set_current_event"
                           /\ ~result'.event.ongoing) =>
               /\ result'.outcome = "ValueError"
               /\ monitors' = monitors ]_vars

(***************************************************************************)
(* Vocabulary of the monitor properties.                                   *)
(***************************************************************************)
\* The monitors that are discharging have discharged in the last 48 hours.
DischargingAreRecent ==
    /\ \A s \in DischargingMonitors :
          monitors[s].discharge_in_last_48h = "True"
    /\ DischargingMonitors \subseteq RecentlyDischargingMonitors

EventIsConsistent(ongoing, start_time, end_time) ==
    /\ ongoing => end_time = NoTime
    /\ ~ongoing => end_time # NoTime
    /\ (end_time # NoTime /\ start_time # NoTime) => end_time >= start_time

(***************************************************************************)
(* C19.  As claimed: every event that exists is ongoing without an         *)
(* end_time, or not ongoing with an end_time that is not before its        *)
(* start_time; a constructor call that would break this raises ValueError  *)
(* and builds no event, and setting ongoing to False (from True only)      *)
(* keeps it.                                                               *)
(***************************************************************************)
C19_EventsAreConsistent ==
    /\ [](\A i \in 1..Len(events) :
            EventIsConsistent(events[i].ongoing, events[i].start_time,
                              events[i].end_time))
    /\ [](result.op = "Event" =>
            (result.outcome = "ValueError"
                <=> ~EventIsConsistent(result.ongoing, result.start_time,
                                       result.end_time)))
    /\ [][ (result = NoCall /\ result'.op = "Event"
                           /\ result'.outcome # "returned") =>
               events' = events ]_vars
    /\ [][ (result = NoCall /\ result'.op = "set_ongoing"
                           /\ result'.outcome = "returned") =>
               \E i \in 1..Len(events) :
                   events[i].ongoing /\ ~events'[i].ongoing ]_vars

(***************************************************************************)
(* Vocabulary of the history properties.                                   *)
(***************************************************************************)
HistoryOf(site) == monitors[site].history

\* The event was in progress at the time: it had started and had not ended.
InProgressAt(event, time) ==
    /\ event.start_time < time
    /\ time < (IF event.ongoing THEN now ELSE event.end_time)

\* The event ended at most 48 hours before the time.
EndedShortlyBefore(event, time) ==
    /\ ~event.ongoing
    /\ event.end_time <= time
    /\ time - event.end_time <= RecentWindow

(***************************************************************************)
(* C20.  As claimed: for a time that is not in the future and falls inside *)
(* an event of the history, recent_discharge_at returns True exactly when  *)
(* some Discharging event of the history was in progress at that time or   *)
(* ended within the 48 hours before it, whatever the position of that      *)
(* event in the history, the oldest entry included.                        *)
(***************************************************************************)
C20_RecentDischargeAt ==
    (/\ result.op = "recent_discharge_at"
     /\ result.time <= now
     /\ \E i \in 1..Len(HistoryOf(result.site)) :
           InProgressAt(HistoryOf(result.site)[i], result.time)) =>
        /\ result.outcome = "returned"
        /\ result.value <=>
              \E i \in 1..Len(HistoryOf(result.site)) :
                  /\ HistoryOf(result.site)[i].event_type = "Discharging"
                  /\ \/ InProgressAt(HistoryOf(result.site)[i], result.time)
                     \/ EndedShortlyBefore(HistoryOf(result.site)[i], result.time)

(***************************************************************************)
(* Vocabulary of the properties of the walk.                               *)
(***************************************************************************)
Calls == IF CallsInProgress THEN 1..Len(result.calls) ELSE {}

\* The call is about to run the iteration of node n.
Visits(call, n) ==
    /\ call.pc = "walking"
    /\ call.i \in 1..Len(order)
    /\ order[call.i] = n

\* The direct donors of n, read off the grid.
DonorsOf(n) == { d \in Nodes : d # n /\ FlowsTo(d) = n }

\* The weight of every node in a call: 1 when none were given.
CallWeights(call) ==
    IF call.weights = None THEN [i \in 1..NNodes(arr) |-> 1]
    ELSE call.weights.data

\* Call t has just run an iteration, that of node n.
RanIteration(t, n) ==
    /\ CallsInProgress
    /\ CallsInProgress'
    /\ t \in 1..Len(result.calls)
    /\ Visits(result.calls[t], n)
    /\ result'.calls[t].i # result.calls[t].i

(***************************************************************************)
(* C22.  When accumulate consumes order in reverse, at the step where a    *)
(* node's value is added to its receiver every donor of the node has been  *)
(* visited, so the value is the weight of everything upstream of the node; *)
(* the step adds that value to the receiver and to no other node, and the  *)
(* iteration of a baselevel node adds nothing.                             *)
(***************************************************************************)
C22_ReverseWalkAddsCompleteValues ==
    /\ [](\A t \in Calls : \A n \in Nodes :
             (result.calls[t].step = -1 /\ Visits(result.calls[t], n)) =>
                 /\ DonorsOf(n) \subseteq SeqSet(result.calls[t].visited)
                 /\ result.calls[t].accum[n + 1] =
                        SumOver(Upstream(n), CallWeights(result.calls[t])))
    /\ [][\A t \in 1..MaxCalls : \A n \in Nodes :
             (RanIteration(t, n) /\ result.calls[t].step = -1) =>
                 \A m \in Nodes :
                     result'.calls[t].accum[m + 1] =
                         IF m = FlowsTo(n) /\ ~IsSink(n)
                         THEN result.calls[t].accum[m + 1]
                                  + result.calls[t].accum[n + 1]
                         ELSE result.calls[t].accum[m + 1]]_vars

\* A reverse walk is about to add a node that has a donor, with weights
\* that are not all equal.
C22_Witness ==
    \E t \in Calls : \E n \in Nodes :
        /\ result.calls[t].step = -1
        /\ Visits(result.calls[t], n)
        /\ ~IsSink(n)
        /\ DonorsOf(n) # {}
        /\ result.calls[t].weights # None
        /\ \E d \in DonorsOf(n) : CallWeights(result.calls[t])[d + 1] = 1
        /\ CallWeights(result.calls[t])[n + 1] = 0

C27_ConcurrentCallsAreIndependent ==
    /\ [](\A t \in Calls :
             result.calls[t].pc = "returned" =>
                 result.calls[t].value =
                     AccumulateResult(result.calls[t].weights).value)
    /\ [][UNCHANGED accumulator]_vars

\* One call has returned while another, with different weights, is part of
\* the way through its walk on a grid with flow between nodes.
C27_Witness ==
    \E t, u \in Calls :
        /\ result.calls[t].pc = "returned"
        /\ result.calls[u].pc = "walking"
        /\ result.calls[u].visited # <<>>
        /\ result.calls[u].i \in 1..Len(order)
        /\ result.calls[t].weights # result.calls[u].weights
        /\ \E n \in Nodes : ~IsSink(n) /\ Drains(n)

(***************************************************************************)
(* C26.  accumulate leaves arr, receivers, baselevel_nodes, order and the  *)
(* caller's weights as they were, and so do get_profile and                *)
(* get_channel_segments; whatever calls ran before it, accumulate returns  *)
(* the array it returns for those weights on the accumulator as it was     *)
(* built from arr, so that a later call with the same weights returns the  *)
(* same array.                                                             *)
(***************************************************************************)
C26_AccumulateIsRepeatable ==
    /\ [](AccumulateReturned =>
             result.value =
                 Reshape([shape |-> <<NNodes(arr)>>,
                          data |-> accumulate_flow(
                              d8_to_receivers(arr),
                              build_ordered_list_iterative(
                                  d8_to_receivers(arr),
                                  BaselevelOf(d8_to_receivers(arr))),
                              [shape |-> <<NNodes(arr)>>, data |-> WeightsUsed])],
                         arr.shape))
    /\ [][/\ UNCHANGED <<arr, receivers, baselevel_nodes, order>>
          /\ \A w \in FittingWeights : Accumulate(w) => result'.weights = w]_vars

\* accumulate has returned, with weights given, on a grid with flow between
\* nodes, and the derived fields are those of arr.
C26_Witness ==
    /\ AccumulateReturned
    /\ result.weights # None
    /\ \E n \in Nodes : ~IsSink(n) /\ Drains(n) /\ WeightsUsed[n + 1] = 1
    /\ receivers = d8_to_receivers(arr)
    /\ order # <<>>

(***************************************************************************)
(* C24.  In the donor index that get_channel_segments builds from the      *)
(* receivers, donor_counts[n] is the number of nodes d # n whose receiver  *)
(* is n; delta has N + 1 entries and is the exclusive prefix sum of        *)
(* donor_counts; the slice donors[delta[n]:delta[n+1]] holds every direct  *)
(* donor of n exactly once and no other node; and the slices of different  *)
(* nodes do not overlap.                                                   *)
(***************************************************************************)
C24_DonorIndexIsCountingSort ==
    SegmentsCalled =>
        LET index == DonorIndex(receivers)
            N == NNodes(arr)
            DirectDonors(n) == { d \in Nodes : d # n /\ receivers[d + 1] = n }
        IN  /\ result.delta = index.delta
            /\ result.donors = index.donors
            /\ Len(index.n_donors) = N
            /\ \A n \in Nodes : index.n_donors[n + 1] = Cardinality(DirectDonors(n))
            /\ Len(index.delta) = N + 1
            /\ index.delta[1] = 0
            /\ \A n \in Nodes :
                  index.delta[n + 2] = index.delta[n + 1] + index.n_donors[n + 1]
            /\ index.delta[N + 1] <= Len(index.donors)
            /\ \A n \in Nodes :
                  /\ SeqSet(DonorSlice(index.delta, index.donors, n)) = DirectDonors(n)
                  /\ NoRepeats(DonorSlice(index.delta, index.donors, n))
            /\ \A n, m \in Nodes : n < m => index.delta[n + 2] <= index.delta[m + 1]

\* The index has been built for a grid of four nodes on which one node has
\* two donors, another has one and the others have none.
C24_Witness ==
    /\ SegmentsCalled
    /\ \E n \in Nodes : result.delta[n + 2] - result.delta[n + 1] = 2
    /\ \E n \in Nodes : result.delta[n + 2] - result.delta[n + 1] = 1
    /\ \E n \in Nodes : result.delta[n + 2] - result.delta[n + 1] = 0
    /\ Len(result.donors) = 3

(***************************************************************************)
(* Vocabulary of the channel properties.                                   *)
(***************************************************************************)
\* The field value of node n exceeds the threshold of the call.
Qualifies(n) == FieldOf(n) > result.threshold

\* The donors of n whose field value exceeds the threshold.
QualifyingDonorsOf(n) == { d \in DonorsOf(n) : Qualifies(d) }

\* n is reached from a baselevel node through nodes that all qualify: every
\* node of its flow path qualifies and the path ends at a baselevel node.
OnChannel(n) ==
    LET path == Chain(n)
    IN  (\A m \in path : Qualifies(m)) /\ (\E m \in path : IsSink(m))

\* The nodes at which a segment starts: the qualifying baselevel nodes and
\* the qualifying donors of a channel node that has more than one of them.
SegmentStarts(channel) ==
    { n \in channel :
        IsSink(n) \/ Cardinality(QualifyingDonorsOf(FlowsTo(n))) > 1 }

(***************************************************************************)
(* C25.  The nodes of the segments that get_channel_segments returns are   *)
(* exactly the nodes reached by walking upstream through donors from a     *)
(* baselevel node whose field exceeds the threshold, passing only through  *)
(* nodes whose field exceeds the threshold, and no node whose field does   *)
(* not exceed the threshold is in a segment.  A segment steps from a node  *)
(* to its only qualifying donor and ends at a node that has none or more   *)
(* than one; the segments start at the qualifying baselevel nodes and at   *)
(* each qualifying donor of a node that has more than one.                 *)
(***************************************************************************)
C25_SegmentsAreChannelsSplitAtConfluences ==
    SegmentsCalled =>
        LET channel == { n \in Nodes : OnChannel(n) }
            starts == SegmentStarts(channel)
            walked == UNION { SeqSet(result.segments[i]) :
                                i \in 1..Len(result.segments) }
        IN  /\ walked = channel
            /\ \A n \in walked : Qualifies(n)
            /\ \A i \in 1..Len(result.segments) :
                  LET segment == result.segments[i]
                  IN  /\ Len(segment) >= 1
                      /\ \A k \in 1..(Len(segment) - 1) :
                            QualifyingDonorsOf(segment[k]) = {segment[k + 1]}
                      /\ Cardinality(QualifyingDonorsOf(segment[Len(segment)])) # 1
            /\ { result.segments[i][1] : i \in 1..Len(result.segments) } = starts
            /\ Len(result.segments) = Cardinality(starts)

\* Three segments: one ends at a baselevel node with two qualifying donors,
\* each of the donors starts a segment, and one of them goes on to its own
\* donor.
C25_Witness ==
    /\ SegmentsCalled
    /\ \E n \in Nodes :
          /\ IsSink(n)
          /\ InSegments(n)
          /\ Cardinality(QualifyingDonorsOf(n)) = 2
    /\ \E i \in 1..Len(result.segments) :
          /\ Len(result.segments[i]) = 2
          /\ ~IsSink(result.segments[i][1])
    /\ Len(result.segments) = 3

(***************************************************************************)
(* Vocabulary of the alerts properties.                                    *)
(***************************************************************************)
\* The alerts of a monitor in the table, newest first.
AlertsOf(site) == RowsOf(alerts.rows, site)

\* update_alerts_table is called in this step.
AlertsTableCalled == result = NoCall /\ result'.op = "update_alerts_table"

\* The monitor has alerts, and its current event differs from the last one.
StatusChanged(site, prev_alert, event_type) ==
    /\ site \in DOMAIN monitors
    /\ AlertsOf(site) # <<>>
    /\ AlertsOf(site)[1].AlertType = prev_alert
    /\ monitors[site].current_event.event_type = event_type
    /\ AlertsOf(site)[1].DateTime # make_start_alert_row(site).DateTime

\* After the step the table holds an alert of this type, time and note for
\* the monitor.
HasAlertAfter(site, alert_type, time, note) ==
    \E i \in 1..Len(alerts'.rows) :
        /\ alerts'.rows[i].LocationName = site
        /\ alerts'.rows[i].AlertType = alert_type
        /\ alerts'.rows[i].DateTime = time
        /\ alerts'.rows[i].Note = note

(***************************************************************************)
(* C21.  After any sequence of update_alerts_table calls, the alerts of    *)
(* each monitor read in DateTime order pair up: every 'Start' that is not  *)
(* the newest alert is directly followed by a 'Stop', and every 'Offline   *)
(* start' that is not the newest alert is directly followed by an          *)
(* 'Offline stop'.                                                         *)
(***************************************************************************)
C21_StartsAreFollowedByStops ==
    \A s \in Sites :
        \A i \in 2..Len(AlertsOf(s)) :
            /\ AlertsOf(s)[i].AlertType = "Start" =>
                  AlertsOf(s)[i - 1].AlertType = "Stop"
            /\ AlertsOf(s)[i].AlertType = "Offline start" =>
                  AlertsOf(s)[i - 1].AlertType = "Offline stop"

(***************************************************************************)
(* C28.  Whatever the last recorded alert of a monitor and its current     *)
(* status are, the pair is handled: update_alerts_table never raises the   *)
(* RuntimeError 'no corresponding action has been implemented', and the    *)
(* call that returns has written the table.                                *)
(***************************************************************************)
C28_EveryStatusChangeIsHandled ==
    result.op = "update_alerts_table" =>
        /\ result.outcome # "RuntimeError"
        /\ result.outcome = "returned" => alerts.exists

(***************************************************************************)
(* C29.  When the last recorded alert of a monitor is 'Start' and its      *)
(* current event is Offline, update_alerts_table adds the 'Offline start'  *)
(* alert and an imputed 'Stop' alert 1 second before it; when the last     *)
(* alert is 'Offline start' and the current event is a discharge that      *)
(* started later, it adds the 'Start' alert and an imputed 'Offline stop'  *)
(* alert 1 second before it.                                               *)
(***************************************************************************)
C29_ImputedStopsAreASecondBefore ==
    [][\A s \in Sites :
          (AlertsTableCalled /\ result'.outcome = "returned") =>
              /\ StatusChanged(s, "Start", "Offline") =>
                    /\ HasAlertAfter(s, "Offline start",
                                     make_start_alert_row(s).DateTime,
                                     make_start_alert_row(s).Note)
                    /\ HasAlertAfter(s, "Stop",
                                     make_start_alert_row(s).DateTime - Second,
                                     "Imputed")
              /\ (/\ StatusChanged(s, "Offline start", "Discharging")
                  /\ AlertsOf(s)[1].DateTime < make_start_alert_row(s).DateTime) =>
                    /\ HasAlertAfter(s, "Start",
                                     make_start_alert_row(s).DateTime,
                                     make_start_alert_row(s).Note)
                    /\ HasAlertAfter(s, "Offline stop",
                                     make_start_alert_row(s).DateTime - Second,
                                     "Imputed")]_vars

(***************************************************************************)
(* Vocabulary of the properties of the downstream impact.                  *)
(***************************************************************************)
\* Floor of the quotient a / b, for b of either sign.
FloorDiv(a, b) == IF b > 0 THEN a \div b ELSE (-a) \div (-b)

\* The monitor's coordinates fall inside the grid.
InBounds(monitor) ==
    /\ FloorDiv(monitor.x_coord - GeoTransform.ulx, GeoTransform.dx) \in 0..(NCols(arr) - 1)
    /\ FloorDiv(monitor.y_coord - GeoTransform.uly, GeoTransform.dy) \in 0..(NRows(arr) - 1)

\* The cell an in-bounds monitor is located in.
CellOf(monitor) ==
    FloorDiv(monitor.y_coord - GeoTransform.uly, GeoTransform.dy) * NCols(arr)
        + FloorDiv(monitor.x_coord - GeoTransform.ulx, GeoTransform.dx)

\* The monitors of the list located in cell n or upstream of it.
SourcesUpstreamOf(sources, n) ==
    { i \in 1..Len(sources) : InBounds(sources[i]) /\ n \in Chain(CellOf(sources[i])) }

ImpactCalled == result.op = "_calculate_downstream_impact"

InfoCalled == result.op = "_calculate_downstream_info"

\* C30: for every list of source monitors _calculate_downstream_impact
\* returns, at each cell, the number of the monitors located in that cell or
\* upstream of it, the monitors out of bounds being skipped; and every node
\* reported by _calculate_downstream_info has number_upstream_CSOs equal to
\* the length of its list of CSOs.
C30_ImpactCountsUpstreamMonitors ==
    /\ ImpactCalled =>
         /\ result.outcome = "returned"
         /\ \A n \in 0..(NNodes(arr) - 1) :
               result.value.data[n + 1] =
                   Cardinality(SourcesUpstreamOf(result.sources, n))
    /\ (InfoCalled /\ result.outcome = "returned") =>
         \A i \in 1..Len(result.features) :
            result.features[i].properties.number_upstream_CSOs =
                Len(result.features[i].properties.CSOs)

====
